---- MODULE Spec2Model ----
(***************************************************************************)
(* NitroScout: the lead acquisition and relevance scoring pipeline.        *)
(*                                                                         *)
(* State machine of the LLM agents (ReviewerAgent, CampaignManagerAgent),  *)
(* their API key pools and the retry loop of _call_llm, the batch scorer   *)
(* (_batch_analyze, analyze_leads) and the two-phase Reddit pipeline.      *)
(* A call to the scoring service is the only point where control leaves    *)
(* the program, so a handler is one action up to its service call and one  *)
(* action per service outcome after it.                                    *)
(***************************************************************************)
EXTENDS Integers, Sequences, FiniteSets, TLC

(***************************************************************************)
(* Bounds of the model.                                                    *)
(***************************************************************************)
NumKeyNames == 2      \* names read by _load_api_keys (7 in the source)
NumKeyVals == 2       \* distinct credential strings the environment may hold
MaxAgents == 2        \* agent instances constructed in one process
MaxData == 2          \* records in one JSON artifact
MaxItems == 2         \* items in one response array of the scoring service
MaxLeads == 3         \* leads returned by one scan
MaxNodes == 4         \* nodes in the reply tree of one thread
MaxFiles == 2         \* files in one platform folder
NumDates == 3         \* dates that file names carry
MaxPosts == 2         \* posts (or hits) in the listing of one channel

(***************************************************************************)
(* Program constants.                                                      *)
(***************************************************************************)
NoModel == 0          \* self.model = None
HighSignalCutoff == 5 \* lead["score"] >= 5
RetryFactor == 2      \* max_retries = len(self._api_keys) * 2
today_str == 2         \* main: the date of the run (dates are numbered)
max_comments == 20    \* fetch_comments(lead, max_comments=20)
REQUEST_DELAY == 15   \* RedditScout.REQUEST_DELAY = 1.5, in tenths of a second
RateLimitSleep == 100 \* time.sleep(10) after a 429, in tenths of a second
hours_back == 24      \* HackerNewsScout.scan(hours_back=24)

VARIABLES
    environ,      \* os.environ at the key names: name position -> key, 0 = unset
    agents,       \* agent slot -> its fields (kind "none": not constructed)
    pc,           \* "idle", or "llm": inside _call_llm, a request in flight
    cur,          \* the agent whose method is running (or ran last)
    op,           \* the method that entered _call_llm
    attempt,      \* _call_llm: local attempt
    entry,        \* _current_key_index when _call_llm was entered; -1 when
                  \* the method returned without calling it
    calls,        \* generate_content calls issued by the current invocation
    burnt,        \* agent slot -> keys of that agent that failed on quota
    data,         \* analyze_leads: the artifact it read at json_path
    cands,        \* analyze_leads: self._candidates, in insertion order
    raw,          \* _batch_analyze: the text _call_llm returned
    status,       \* how the last method ended: "none", "returned", "raised"
    err,          \* the exception of the last parse ("" when none)
    all_scored,   \* analyze_leads: the list _batch_analyze returned
    high_signal,  \* analyze_leads: the list it returned
    text_out,     \* _generate_insights / generate_playbook: the text returned
    report_leads, \* display_report: its argument leads
    output_path,  \* display_report: whether it was given an output_path
    report_md,    \* the markdown report on disk
    scouts_dir,   \* generate_playbook: SCOUTS_DIR as _collect_reports found it
    reports,      \* generate_playbook: the list _collect_reports returned
    leads,        \* run_reddit: the leads of the scan, in scan order
    reddit_data,  \* run_reddit: the title-keyed map, in insertion order
    json_file,    \* the JSON artifact of the Reddit pipeline on disk
    fetched,      \* positions in leads for which a comment request was issued
    rpc,          \* run_reddit: its position
    li,           \* enrich_leads: the position of its loop in leads
    scout,        \* the adapter whose scan runs: "reddit", "hn" or "none"
    ch,           \* scan: position of its loop in the channels
    spc,          \* scan: "none", "get" / "retry" (a request in flight), "done"
    trace,        \* scan: the requests, responses, sleeps and caught exceptions
    scan_leads,   \* scan: the local list leads
    platforms,    \* main: the list select_platforms returned
    mi,           \* main: the position in platforms of the stage to run
    mpc,          \* main: "select", "next", "campaign", "done", "aborted"
    stages,       \* main: how each stage started so far has ended
    hn_file,      \* the JSON artifact of the Hacker News pipeline on disk
    campaign_file, \* the playbook at OUTPUT_DIR: its text, <<>> when not written
    cpc,          \* comment fetch: "none", "reddit" / "hn" (a request in flight),
                  \* "reddit_done" / "hn_done"
    thread,       \* comment fetch: the reply tree of the response
    collected,    \* comment fetch: the closure list when the flattening ends
    flat          \* comment fetch: the list returned

llmVars == <<environ, agents, pc, cur, op, attempt, entry, calls, burnt>>
scoreVars == <<data, cands, raw, status, err, all_scored, high_signal, text_out,
              report_leads, output_path, report_md, scouts_dir, reports>>
redditVars == <<leads, reddit_data, json_file, fetched, rpc, li>>
scanVars == <<scout, ch, spc, trace, scan_leads>>
mainVars == <<platforms, mi, mpc, stages, hn_file, campaign_file>>
commentVars == <<cpc, thread, collected, flat>>
restVars == <<scanVars, mainVars, commentVars>>
vars == <<environ, agents, pc, cur, op, attempt, entry, calls, burnt,
          data, cands, raw, status, err, all_scored, high_signal, text_out,
          report_leads, output_path, report_md, scouts_dir, reports,
          leads, reddit_data, json_file, fetched, rpc, li,
          scout, ch, spc, trace, scan_leads,
          platforms, mi, mpc, stages, hn_file, campaign_file,
          cpc, thread, collected, flat>>

Agents == 1..MaxAgents
KeyVals == 1..NumKeyVals
KeyNames == 1..NumKeyNames

(***************************************************************************)
(* The API key pool.                                                       *)
(***************************************************************************)
RECURSIVE LoadFrom(_, _, _)
LoadFrom(env, i, keys) ==
    IF i > NumKeyNames THEN keys
    ELSE IF env[i] # 0 /\ ~(\E j \in 1..Len(keys) : keys[j] = env[i])
         THEN LoadFrom(env, i + 1, Append(keys, env[i]))
         ELSE LoadFrom(env, i + 1, keys)

\* _load_api_keys: the keys of the environment in name order, deduplicated.
_load_api_keys(env) == LoadFrom(env, 1, <<>>)

\* _init_model(key_index)
_init_model(ag, key_index) ==
    IF key_index >= Len(ag.api_keys)
    THEN [ag EXCEPT !.model = NoModel]
    ELSE [ag EXCEPT !.model = ag.api_keys[key_index + 1]]

\* _rotate_key with a cursor that wraps round to the first key.
_rotate_key_wraps(ag) ==
    LET moved == [ag EXCEPT !.current_key_index =
                      (ag.current_key_index + 1) % Len(ag.api_keys)] IN
    [agent |-> [moved EXCEPT !.model = moved.api_keys[moved.current_key_index + 1]],
     ok |-> TRUE]

\* _rotate_key: the agent after the call, and the value returned.
_rotate_key(ag) ==
    LET moved == [ag EXCEPT !.current_key_index = ag.current_key_index + 1] IN
    IF moved.current_key_index >= Len(moved.api_keys)
    THEN [agent |-> [moved EXCEPT !.model = NoModel], ok |-> FALSE]
    ELSE [agent |-> _init_model(moved, moved.current_key_index), ok |-> TRUE]

\* __init__ of ReviewerAgent and of CampaignManagerAgent.
NewAgent(kind, env) ==
    LET fresh == [kind |-> kind, api_keys |-> _load_api_keys(env),
                  current_key_index |-> 0, model |-> NoModel] IN
    IF Len(fresh.api_keys) = 0 THEN fresh
    ELSE _init_model(fresh, fresh.current_key_index)

Unbuilt == [kind |-> "none", api_keys |-> <<>>, current_key_index |-> 0,
            model |-> NoModel]

(***************************************************************************)
(* _call_llm: the retry loop.                                              *)
(***************************************************************************)
max_retries(ag) == Len(ag.api_keys) * RetryFactor

\* The loop without its test of self.model.
LoopCalls_NoModelCheck(ag, att) == att < max_retries(ag)

\* The loop issues a request: its condition holds and the model is set.
LoopCalls(ag, att) == att < max_retries(ag) /\ ag.model # NoModel

\* Exception messages of the service, as token sequences.
QuotaMessages == { <<"429", "Too Many Requests">>,
                   <<"Quota exceeded", "RESOURCE_EXHAUSTED">> }
OtherMessages == { <<"503", "Service Unavailable">>, <<"Deadline exceeded">> }

Contains(msg, tok) == \E i \in 1..Len(msg) : msg[i] = tok

\* Every exception taken for a quota failure.
IsQuotaError_Any(msg) == TRUE

\* "429" in str(e) or "RESOURCE_EXHAUSTED" in str(e)
IsQuotaError(msg) == Contains(msg, "429") \/ Contains(msg, "RESOURCE_EXHAUSTED")

(***************************************************************************)
(* Text.  A string is the sequence of its characters, so that lower() and  *)
(* the substring test of the prefilter are computed, not assumed.          *)
(***************************************************************************)
LowerChar(c) ==
    CASE c = "A" -> "a" [] c = "B" -> "b" [] c = "C" -> "c" [] c = "D" -> "d"
      [] c = "E" -> "e" [] c = "F" -> "f" [] c = "G" -> "g" [] c = "H" -> "h"
      [] c = "I" -> "i" [] c = "J" -> "j" [] c = "K" -> "k" [] c = "L" -> "l"
      [] c = "M" -> "m" [] c = "N" -> "n" [] c = "O" -> "o" [] c = "P" -> "p"
      [] c = "Q" -> "q" [] c = "R" -> "r" [] c = "S" -> "s" [] c = "T" -> "t"
      [] c = "U" -> "u" [] c = "V" -> "v" [] c = "W" -> "w" [] c = "X" -> "x"
      [] c = "Y" -> "y" [] c = "Z" -> "z" [] OTHER -> c

\* str.lower()
Lower(s) == [i \in 1..Len(s) |-> LowerChar(s[i])]

\* kw in s
IsSubstring(kw, s) ==
    \E i \in 1..(Len(s) - Len(kw) + 1) : SubSeq(s, i, i + Len(kw) - 1) = kw

PREFILTER_KEYWORDS == <<
    <<"m", "c", "p">>,
    <<"m", "o", "d", "e", "l", " ", "c", "o", "n", "t", "e", "x", "t", " ",
      "p", "r", "o", "t", "o", "c", "o", "l">>,
    <<"a", "g", "e", "n", "t">>,
    <<"l", "l", "m">>,
    <<"a", "i", " ">>,
    <<"t", "y", "p", "e", "s", "c", "r", "i", "p", "t">>,
    <<"s", "e", "r", "v", "e", "r">>,
    <<"s", "d", "k">>,
    <<"p", "l", "u", "g", "i", "n">>,
    <<"t", "o", "o", "l">>,
    <<"f", "r", "a", "m", "e", "w", "o", "r", "k">>,
    <<"i", "n", "f", "r", "a", "s", "t", "r", "u", "c", "t", "u", "r", "e">>,
    <<"n", "i", "t", "r", "o", "s", "t", "a", "c", "k">>,
    <<"n", "i", "t", "r", "o">>,
    <<"o", "p", "e", "n", "a", "i">>,
    <<"a", "n", "t", "h", "r", "o", "p", "i", "c">>,
    <<"g", "e", "m", "i", "n", "i">>,
    <<"c", "u", "r", "s", "o", "r">>
>>

\* The test on title and post joined without the separating space.
PassesPrefilter_NoSeparator(info) ==
    LET combined == Lower(info.title \o info.post) IN
    \E k \in 1..Len(PREFILTER_KEYWORDS) : IsSubstring(PREFILTER_KEYWORDS[k], combined)

\* The test of _prefilter on one record of the artifact.
PassesPrefilter(info) ==
    LET combined == Lower(info.title \o <<" ">> \o info.post) IN
    \E k \in 1..Len(PREFILTER_KEYWORDS) : IsSubstring(PREFILTER_KEYWORDS[k], combined)

\* A prefilter that lets every record through.
_prefilter_bypass(records) == records

\* _prefilter: the records that pass, in the order of the artifact.
_prefilter(records) == SelectSeq(records, PassesPrefilter)

(***************************************************************************)
(* The response of the scoring service.  A text is a sequence of tokens:   *)
(* a code fence with its language tag, prose, or one JSON document.        *)
(***************************************************************************)
Fence(lang) == [tok |-> "fence", lang |-> lang]
Prose == [tok |-> "prose"]
JsonDoc(val) == [tok |-> "json", val |-> val]

\* JSON values and the fields of an item of the response array.
Missing == [t |-> "missing", v |-> 0]
JNull == [t |-> "null", v |-> 0]
JInt(n) == [t |-> "int", v |-> n]
JFloat(tenths) == [t |-> "float", v |-> tenths]   \* the value times ten
JNumStr(n) == [t |-> "numstr", v |-> n]           \* a string of digits
JStr == [t |-> "str", v |-> 0]                    \* any other string

Obj(index, score, analysis) ==
    [it |-> "object", index |-> index, score |-> score, analysis |-> analysis]
NotAnObject == [it |-> "other", index |-> Missing, score |-> Missing, analysis |-> ""]

JArray(items) == [jt |-> "array", items |-> items, size |-> Len(items)]
JObject(n) == [jt |-> "object", items |-> <<>>, size |-> n]
JString(n) == [jt |-> "string", items |-> <<>>, size |-> n]
JNumber == [jt |-> "number", items |-> <<>>, size |-> 0]

\* re.sub(r"^```(?:json)?\s*", "", raw): the opening fence, with "json" if
\* that follows it; any other tag stays in the text.
StripOpeningFence(text) ==
    IF Len(text) > 0 /\ text[1].tok = "fence"
    THEN IF text[1].lang \in {"", "json"} THEN Tail(text)
         ELSE <<Prose>> \o Tail(text)
    ELSE text

\* re.sub(r"\s*```$", "", text): the closing fence.
StripClosingFence(text) ==
    IF Len(text) > 0 /\ text[Len(text)].tok = "fence" /\ text[Len(text)].lang = ""
    THEN SubSeq(text, 1, Len(text) - 1)
    ELSE text

\* json.loads: the text must be exactly one JSON document.
json_loads(text) ==
    IF Len(text) = 1 /\ text[1].tok = "json"
    THEN [ok |-> TRUE, val |-> text[1].val]
    ELSE [ok |-> FALSE, val |-> JNumber]

(***************************************************************************)
(* _batch_analyze: the prompt, and the mapping of the response.            *)
(***************************************************************************)
\* post_list: the candidates enumerated from 1 in insertion order.
post_list(candidates) ==
    [i \in 1..Len(candidates) |->
        [index |-> i, title |-> candidates[i].title,
         comments |-> Len(candidates[i].comments)]]

\* The index used as it is, without the shift to 0-based.
IndexOf_NoShift(index) ==
    CASE index.t = "missing" -> [exc |-> "", float |-> FALSE, v |-> 0]
      [] index.t = "int"     -> [exc |-> "", float |-> FALSE, v |-> index.v]
      [] index.t = "float"   -> [exc |-> "", float |-> TRUE, v |-> index.v]
      [] OTHER               -> [exc |-> "TypeError", float |-> FALSE, v |-> 0]

\* idx = item.get("index", 0) - 1.  A float keeps its tenths.
IndexOf(index) ==
    CASE index.t = "missing" -> [exc |-> "", float |-> FALSE, v |-> 0 - 1]
      [] index.t = "int"     -> [exc |-> "", float |-> FALSE, v |-> index.v - 1]
      [] index.t = "float"   -> [exc |-> "", float |-> TRUE, v |-> index.v - 10]
      [] OTHER               -> [exc |-> "TypeError", float |-> FALSE, v |-> 0]

\* 0 <= idx < len(titles)
IndexInRange(idx, n) ==
    IF idx.float THEN 0 <= idx.v /\ idx.v < 10 * n
    ELSE 0 <= idx.v /\ idx.v < n

\* int(x): a float is truncated toward zero, a string is parsed.
IntOf(score) ==
    CASE score.t = "missing" -> [exc |-> "", v |-> 0]
      [] score.t = "int"     -> [exc |-> "", v |-> score.v]
      [] score.t = "float"   -> [exc |-> "", v |-> IF score.v >= 0 THEN score.v \div 10
                                                    ELSE 0 - ((0 - score.v) \div 10)]
      [] score.t = "numstr"  -> [exc |-> "", v |-> score.v]
      [] score.t = "str"     -> [exc |-> "ValueError", v |-> 0]
      [] OTHER               -> [exc |-> "TypeError", v |-> 0]

Raised(exc) == [status |-> "raised", err |-> exc, scored |-> <<>>]

\* The loop "for item in results" over a list, from item i on.
RECURSIVE ScoreItems(_, _, _, _)
ScoreItems(items, i, candidates, scored) ==
    IF i > Len(items) THEN [status |-> "returned", err |-> "", scored |-> scored]
    ELSE LET item == items[i] IN
         IF item.it # "object" THEN Raised("AttributeError")
         ELSE LET idx == IndexOf(item.index) IN
              IF idx.exc # "" THEN Raised(idx.exc)
              ELSE IF ~IndexInRange(idx, Len(candidates))
                   THEN ScoreItems(items, i + 1, candidates, scored)
              ELSE IF idx.float THEN Raised("TypeError")
              ELSE LET info == candidates[idx.v + 1]
                       sc == IntOf(item.score) IN
                   IF sc.exc # "" THEN Raised(sc.exc)
                   ELSE ScoreItems(items, i + 1, candidates,
                            Append(scored,
                                   [title |-> info.title, url |-> info.url,
                                    score |-> sc.v, analysis |-> item.analysis,
                                    comment_count |-> Len(info.comments)]))

\* "for item in results" over whatever json.loads returned.
ScoreResults(results, candidates) ==
    CASE results.jt = "array" -> ScoreItems(results.items, 1, candidates, <<>>)
      [] results.jt \in {"object", "string"} ->
            IF results.size = 0
            THEN [status |-> "returned", err |-> "", scored |-> <<>>]
            ELSE Raised("AttributeError")
      [] OTHER -> Raised("TypeError")

\* The try block with an except clause that does not catch the decode error.
ParseResponse_DecodeErrorEscapes(text, candidates) ==
    LET loaded == json_loads(StripClosingFence(StripOpeningFence(text))) IN
    IF ~loaded.ok THEN Raised("JSONDecodeError")
    ELSE ScoreResults(loaded.val, candidates)

\* The try block of _batch_analyze on a non-empty text.
ParseResponse(text, candidates) ==
    LET loaded == json_loads(StripClosingFence(StripOpeningFence(text))) IN
    IF ~loaded.ok
    THEN [status |-> "returned", err |-> "JSONDecodeError", scored |-> <<>>]
    ELSE ScoreResults(loaded.val, candidates)

\* _batch_analyze without the test "if not raw": None reaches re.sub.
BatchResult_NoNoneCheck(ret, candidates) ==
    IF ret.none THEN Raised("TypeError")
    ELSE ParseResponse(ret.text, candidates)

\* _batch_analyze after _call_llm returned: `ret` is None or a text.
BatchResult(ret, candidates) ==
    IF ret.none \/ Len(ret.text) = 0
    THEN [status |-> "returned", err |-> "", scored |-> <<>>]
    ELSE ParseResponse(ret.text, candidates)

(***************************************************************************)
(* analyze_leads: the cutoff and the sort.                                 *)
(***************************************************************************)
\* The cutoff as a strict bound.
IsHighSignal_Strict(lead) == lead.score > HighSignalCutoff

\* lead["score"] >= 5
IsHighSignal(lead) == lead.score >= HighSignalCutoff

Reverse(s) == [i \in 1..Len(s) |-> s[Len(s) + 1 - i]]

\* One step of a stable ascending insertion sort: x goes after every
\* element whose key is not greater.
InsertByScore(sorted, x) ==
    LET n == Cardinality({j \in 1..Len(sorted) : sorted[j].score <= x.score}) IN
    SubSeq(sorted, 1, n) \o <<x>> \o SubSeq(sorted, n + 1, Len(sorted))

RECURSIVE SortAscending(_)
SortAscending(s) ==
    IF Len(s) = 0 THEN <<>>
    ELSE InsertByScore(SortAscending(SubSeq(s, 1, Len(s) - 1)), s[Len(s)])

\* A descending sort that reverses an ascending one: equal keys change order.
sort_reverse_unstable(s) == Reverse(SortAscending(s))

\* list.sort(key=score, reverse=True): the list is reversed, sorted stably in
\* ascending order and reversed again.
sort_reverse(s) == Reverse(SortAscending(Reverse(s)))

\* high_signal of analyze_leads from all_scored.
HighSignal(scored) == sort_reverse(SelectSeq(scored, IsHighSignal))

(***************************************************************************)
(* display_report: the markdown report.                                    *)
(***************************************************************************)
\* No report at output_path.
NoReport == [exists |-> FALSE, count |-> 0, rows |-> <<>>, briefing |-> <<>>]

\* str.replace("|", "\\|") on a text given by its characters.
RECURSIVE EscapePipes(_)
EscapePipes(text) ==
    IF Len(text) = 0 THEN <<>>
    ELSE (IF Head(text) = "|" THEN <<"\\", "|">> ELSE <<Head(text)>>)
         \o EscapePipes(Tail(text))

\* A scoreboard with the row of the first lead only.
Scoreboard_FirstOnly(ls) ==
    [i \in 1..(IF Len(ls) = 0 THEN 0 ELSE 1) |->
        [score |-> ls[i].score, title |-> EscapePipes(ls[i].title),
         url |-> ls[i].url, analysis |-> ls[i].analysis,
         comment_count |-> ls[i].comment_count]]

\* The scoreboard rows, one per lead in the order of leads (the analyses of
\* the model hold no "|").
Scoreboard(ls) ==
    [i \in 1..Len(ls) |->
        [score |-> ls[i].score, title |-> EscapePipes(ls[i].title),
         url |-> ls[i].url, analysis |-> ls[i].analysis,
         comment_count |-> ls[i].comment_count]]

\* report_content as written to output_path: the header with the number of
\* leads, the scoreboard and, when insights_md is not empty, the briefing.
Render(ls, insights_md) ==
    [exists |-> TRUE, count |-> Len(ls), rows |-> Scoreboard(ls),
     briefing |-> insights_md]

(***************************************************************************)
(* The methods that call the LLM.  `ret` is what _call_llm returned: None  *)
(* or a text.                                                              *)
(***************************************************************************)
NoneRet == [none |-> TRUE, text |-> <<>>]
TextRet(t) == [none |-> FALSE, text |-> t]

\* The caller of _call_llm takes its result: the rest of analyze_leads (with
\* _batch_analyze), of _generate_insights or of generate_playbook.
Finish(o, ret, candidates) ==
    /\ pc' = "idle"
    /\ raw' = ret
    /\ CASE o = "analyze" ->
              LET b == BatchResult(ret, candidates) IN
              /\ status' = b.status
              /\ err' = b.err
              /\ all_scored' = b.scored
              /\ high_signal' = IF b.status = "returned" THEN HighSignal(b.scored)
                                ELSE <<>>
              /\ text_out' = NoneRet
         [] o \in {"insights", "report"} ->
              /\ status' = "returned"
              /\ err' = ""
              /\ all_scored' = <<>>
              /\ high_signal' = <<>>
              /\ text_out' = IF ret.none THEN TextRet(<<>>) ELSE ret
         [] OTHER ->
              /\ status' = "returned"
              /\ err' = ""
              /\ all_scored' = <<>>
              /\ high_signal' = <<>>
              /\ text_out' = IF ret.none \/ Len(ret.text) = 0 THEN NoneRet ELSE ret
    /\ report_md' = IF o = "report"
                    THEN Render(report_leads', IF ret.none THEN <<>> ELSE ret.text)
                    ELSE report_md

\* What os.path.exists and json.load give when there is no artifact.
MissingFile == [exists |-> FALSE, data |-> <<>>]

\* A method returns before it reaches _call_llm: an empty list, "" or None.
ReturnEarly(o) ==
    /\ pc' = "idle"
    /\ raw' = NoneRet
    /\ status' = "returned"
    /\ err' = ""
    /\ all_scored' = <<>>
    /\ high_signal' = <<>>
    /\ text_out' = IF o = "insights" THEN TextRet(<<>>) ELSE NoneRet
    /\ attempt' = 0
    /\ entry' = 0 - 1
    /\ calls' = 0
    /\ UNCHANGED report_md

\* Entry of _call_llm: attempt = 0, then the first test of the loop.
EnterCallLlm(a, o, candidates) ==
    /\ attempt' = 0
    /\ entry' = agents[a].current_key_index
    /\ calls' = 0
    /\ IF LoopCalls(agents[a], 0)
       THEN /\ pc' = "llm"
            /\ raw' = NoneRet
            /\ status' = "none"
            /\ err' = ""
            /\ all_scored' = <<>>
            /\ high_signal' = <<>>
            /\ text_out' = NoneRet
            /\ UNCHANGED report_md
       ELSE Finish(o, NoneRet, candidates)

\* ReviewerAgent.__init__ / CampaignManagerAgent.__init__
Construct(a, kind) ==
    /\ pc = "idle"
    /\ UNCHANGED <<redditVars, restVars>>
    /\ agents[a].kind = "none"
    /\ IF a = 1 THEN TRUE ELSE agents[a - 1].kind # "none"
    /\ agents' = [agents EXCEPT ![a] = NewAgent(kind, environ)]
    /\ UNCHANGED <<environ, pc, cur, op, attempt, entry, calls, burnt>>
    /\ UNCHANGED scoreVars

\* ReviewerAgent.analyze_leads, up to the request of _batch_analyze.
\* `file` is the JSON artifact at json_path.
AnalyzeLeads(a, file) ==
    /\ pc = "idle"
    /\ UNCHANGED <<redditVars, restVars>>
    /\ agents[a].kind = "reviewer"
    /\ cur' = a
    /\ op' = "analyze"
    /\ UNCHANGED <<environ, agents, burnt, report_leads, output_path,
                 scouts_dir, reports>>
    /\ data' = file
    /\ IF ~file.exists
       THEN /\ cands' = cands
            /\ ReturnEarly("analyze")
       ELSE LET candidates == _prefilter(file.data) IN
            /\ cands' = [cands EXCEPT ![a] = candidates]
            /\ IF Len(candidates) = 0 \/ agents[a].model = NoModel
               THEN ReturnEarly("analyze")
               ELSE EnterCallLlm(a, "analyze", candidates)

\* ReviewerAgent._generate_insights(high_signal, candidates, knowledge)
GenerateInsights(a, scored_leads) ==
    /\ pc = "idle"
    /\ UNCHANGED <<redditVars, restVars>>
    /\ agents[a].kind = "reviewer"
    /\ cur' = a
    /\ op' = "insights"
    /\ UNCHANGED <<environ, agents, burnt, cands, report_leads, output_path,
                 scouts_dir, reports>>
    /\ data' = MissingFile    \* a local of analyze_leads: nothing of it is left here
    /\ IF agents[a].model = NoModel \/ Len(scored_leads) = 0
       THEN ReturnEarly("insights")
       ELSE EnterCallLlm(a, "insights", cands[a])

(***************************************************************************)
(* _collect_reports over SCOUTS_DIR.  An entry of the directory has a name *)
(* and, when it is a directory, files; a file name is                      *)
(* "<date>_<tag>_<kind>", with dates numbered in calendar order.           *)
(***************************************************************************)
\* The order of str on the names of the model.
NameRank(name) ==
    CASE name = "campaign_manager"    -> 1
      [] name = "campaign_manager.py" -> 2
      [] name = "hackernews_posts"    -> 3
      [] name = "reddit_posts"        -> 4
      [] name = "HN"                  -> 1
      [] name = "Reddit"              -> 2
      [] name = "post.json"           -> 1
      [] name = "report.md"           -> 2
      [] OTHER                        -> 0

\* Path order of two files of one directory: by the characters of the name.
FileBefore(f, g) ==
    \/ f.date < g.date
    \/ f.date = g.date /\ NameRank(f.tag) < NameRank(g.tag)
    \/ f.date = g.date /\ f.tag = g.tag /\ NameRank(f.kind) < NameRank(g.kind)

\* sorted(...) of a set of files.
RECURSIVE SortedFiles(_)
SortedFiles(S) ==
    IF S = {} THEN <<>>
    ELSE LET least == CHOOSE f \in S : \A g \in S \ {f} : FileBefore(f, g)
         IN  <<least>> \o SortedFiles(S \ {least})

\* sorted(self.SCOUTS_DIR.iterdir())
RECURSIVE SortedEntries(_)
SortedEntries(S) ==
    IF S = {} THEN <<>>
    ELSE LET least == CHOOSE e \in S :
                          \A g \in S \ {e} : NameRank(e.name) < NameRank(g.name)
         IN  <<least>> \o SortedEntries(S \ {least})

\* subdir.glob(f"{date_str}_*_report.md"), and subdir.glob("*_report.md")
GlobDated(files, date_str) ==
    { f \in files : f.date = date_str /\ f.kind = "report.md" }
GlobAny(files) == { f \in files : f.kind = "report.md" }

\* subdir.name.replace("_posts", "").replace("_", " ").title()
PlatformOf(name) ==
    CASE name = "hackernews_posts" -> "Hackernews"
      [] name = "reddit_posts"     -> "Reddit"
      [] name = "campaign_manager" -> "Campaign Manager"
      [] OTHER                     -> name

\* The test that skips an entry, without the name of the output folder.
Skipped_OutputRead(subdir) == ~subdir.is_dir

\* "if not subdir.is_dir() or subdir.name == 'campaign_manager': continue"
Skipped(subdir) == ~subdir.is_dir \/ subdir.name = "campaign_manager"

\* The matches of one directory without the fallback test: every report.
Matches_AnyDate(subdir, date_str) == SortedFiles(GlobAny(subdir.files))

\* matches for one directory: the reports of the date, else every report.
Matches(subdir, date_str) ==
    LET dated == SortedFiles(GlobDated(subdir.files, date_str)) IN
    IF Len(dated) = 0 THEN SortedFiles(GlobAny(subdir.files)) ELSE dated

\* The loop of _collect_reports over the sorted entries, from entry i on.
RECURSIVE CollectFrom(_, _, _, _)
CollectFrom(subdirs, i, date_str, found) ==
    IF i > Len(subdirs) THEN found
    ELSE LET subdir == subdirs[i]
             matches == Matches(subdir, date_str) IN
         IF Skipped(subdir) \/ Len(matches) = 0
         THEN CollectFrom(subdirs, i + 1, date_str, found)
         ELSE CollectFrom(subdirs, i + 1, date_str,
                  Append(found, [platform |-> PlatformOf(subdir.name),
                                 path |-> <<subdir.name, matches[Len(matches)]>>,
                                 content |-> matches[Len(matches)]]))

_collect_reports(entries, date_str) ==
    CollectFrom(SortedEntries(entries), 1, date_str, <<>>)

\* File names and directory contents of the model.
File(date, tag, kind) == [date |-> date, tag |-> tag, kind |-> kind]
Entry(name, is_dir, files) == [name |-> name, is_dir |-> is_dir, files |-> files]
SourceFile == Entry("campaign_manager.py", FALSE, {})
NoEntries == {SourceFile}

HNFiles ==
    { File(d, "HN", k) : d \in 1..NumDates, k \in {"report.md", "post.json"} }
    \cup { File(today_str, "Reddit", "report.md") }
HNDirs ==
    { Entry("hackernews_posts", TRUE, fs) :
        fs \in { T \in SUBSET HNFiles : Cardinality(T) <= MaxFiles } }
RedditDirs ==
    { Entry("reddit_posts", TRUE, fs) :
        fs \in { {}, {File(1, "Reddit", "report.md")},
                 {File(today_str, "Reddit", "report.md")} } }
OutputDir ==
    Entry("campaign_manager", TRUE,
          {File(today_str, "HN", "report.md"), File(3, "x", "campaign.md")})

\* SCOUTS_DIR: the source file, the Hacker News folder, and possibly the
\* Reddit folder and the output folder of an earlier run.
ScoutEntries ==
    { {SourceFile, h} \cup r \cup o :
        h \in HNDirs, r \in { {} } \cup { {d} : d \in RedditDirs },
        o \in { {}, {OutputDir} } }

\* For the key pool: no report anywhere, and one report.
KeyEntries ==
    { NoEntries,
      {SourceFile, Entry("hackernews_posts", TRUE,
                         {File(today_str, "HN", "report.md")})} }

\* CampaignManagerAgent.generate_playbook(date_str) with SCOUTS_DIR as
\* `entries`, up to the request of _call_llm.
GeneratePlaybook(a, entries) ==
    /\ pc = "idle"
    /\ UNCHANGED <<redditVars, restVars>>
    /\ agents[a].kind = "campaign"
    /\ cur' = a
    /\ op' = "playbook"
    /\ UNCHANGED <<environ, agents, burnt, cands, report_leads, output_path>>
    /\ scouts_dir' = entries
    /\ reports' = _collect_reports(entries, today_str)
    /\ data' = MissingFile    \* a local of analyze_leads: nothing of it is left here
    /\ IF Len(reports') = 0
       THEN ReturnEarly("playbook")
       ELSE EnterCallLlm(a, "playbook", cands[a])

\* A display_report without its test of the list of leads.
DisplayReport_NoEmptyGuard(a, ls, out) ==
    /\ pc = "idle"
    /\ UNCHANGED <<redditVars, restVars>>
    /\ agents[a].kind = "reviewer"
    /\ cur' = a
    /\ op' = "report"
    /\ UNCHANGED <<environ, agents, burnt, cands>>
    /\ data' = MissingFile
    /\ report_leads' = ls
    /\ output_path' = out
    /\ UNCHANGED <<scouts_dir, reports>>
    /\ IF ~out
       THEN ReturnEarly("report")
       ELSE IF agents[a].model = NoModel \/ Len(ls) = 0
       THEN /\ attempt' = 0
            /\ entry' = 0 - 1
            /\ calls' = 0
            /\ Finish("report", NoneRet, cands[a])
       ELSE EnterCallLlm(a, "report", cands[a])

\* ReviewerAgent.display_report(leads, output_path), up to the request of
\* _generate_insights.  Without leads, or without output_path, it returns
\* and writes nothing; without a model _generate_insights returns "" and the
\* report is written at once.
DisplayReport(a, ls, out) ==
    /\ pc = "idle"
    /\ UNCHANGED <<redditVars, restVars>>
    /\ agents[a].kind = "reviewer"
    /\ cur' = a
    /\ op' = "report"
    /\ UNCHANGED <<environ, agents, burnt, cands>>
    /\ data' = MissingFile
    /\ report_leads' = ls
    /\ output_path' = out
    /\ UNCHANGED <<scouts_dir, reports>>
    /\ IF Len(ls) = 0 \/ ~out
       THEN ReturnEarly("report")
       ELSE IF agents[a].model = NoModel
       THEN /\ attempt' = 0
            /\ entry' = 0 - 1
            /\ calls' = 0
            /\ Finish("report", NoneRet, cands[a])
       ELSE EnterCallLlm(a, "report", cands[a])

\* An except clause that counts any failure as an attempt and goes on.
AfterException_RetriesOther(ag, att, msg) ==
    IF IsQuotaError(msg)
    THEN LET rot == _rotate_key(ag) IN
         IF ~rot.ok THEN [agent |-> rot.agent, attempt |-> att, again |-> FALSE]
         ELSE [agent |-> rot.agent, attempt |-> att + 1, again |-> TRUE]
    ELSE [agent |-> ag, attempt |-> att + 1, again |-> TRUE]

\* The except clause of _call_llm: the agent and attempt after it, and
\* whether the loop goes on (again) or is left by break.
AfterException(ag, att, msg) ==
    IF IsQuotaError(msg)
    THEN LET rot == _rotate_key(ag) IN
         IF ~rot.ok THEN [agent |-> rot.agent, attempt |-> att, again |-> FALSE]
         ELSE [agent |-> rot.agent, attempt |-> att + 1, again |-> TRUE]
    ELSE [agent |-> ag, attempt |-> att, again |-> FALSE]

\* generate_content returns: _call_llm returns response.text.strip().
ServiceOk(text) ==
    /\ pc = "llm"
    /\ UNCHANGED <<redditVars, restVars>>
    /\ calls' = calls + 1
    /\ UNCHANGED <<environ, agents, cur, op, attempt, entry, burnt, data, cands, report_leads, output_path,
                 scouts_dir, reports>>
    /\ Finish(op, TextRet(text), cands[cur])

\* generate_content raises an exception with message msg.
ServiceRaises(msg) ==
    LET h == AfterException(agents[cur], attempt, msg) IN
    /\ pc = "llm"
    /\ calls' = calls + 1
    /\ agents' = [agents EXCEPT ![cur] = h.agent]
    /\ UNCHANGED <<redditVars, restVars>>
    /\ attempt' = h.attempt
    /\ burnt' = IF IsQuotaError(msg)
                THEN [burnt EXCEPT ![cur] = @ \cup {agents[cur].model}]
                ELSE burnt
    /\ UNCHANGED <<environ, cur, op, entry, data, cands, report_leads, output_path,
                 scouts_dir, reports>>
    /\ IF h.again /\ LoopCalls(h.agent, h.attempt)
       THEN UNCHANGED <<pc, raw, status, err, all_scored, high_signal, text_out,
                        report_md>>
       ELSE Finish(op, NoneRet, cands[cur])

(***************************************************************************)
(* Inputs: environments, artifacts and responses.                          *)
(***************************************************************************)
\* Credentials are opaque strings: only their equality matters, so the keys
\* of an environment are numbered in the order of their first use.
Environs ==
    { env \in [KeyNames -> {0} \cup KeyVals] :
        \A i \in KeyNames :
            env[i] > 1 => \E j \in 1..(i - 1) : env[j] = env[i] - 1 }

\* Every name holds a key of its own, as far as there are keys.
FullEnviron == [i \in KeyNames |-> IF i <= NumKeyVals THEN i ELSE 0]

Comment(text) == [author |-> "u", text |-> text]

RecMCP == [title |-> <<"M", "C", "P">>, url |-> "url-mcp", post |-> <<>>,
           comments |-> <<Comment("c1"), Comment("c2")>>]
RecAI == [title |-> <<"A", "I">>, url |-> "url-ai", post |-> <<>>,
           comments |-> <<>>]
RecDog == [title |-> <<"d", "o", "g">>, url |-> "url-dog",
           post |-> <<"S", "D", "K">>, comments |-> <<Comment("c3")>>]
RecCat == [title |-> <<"c", "a", "t">>, url |-> "url-cat", post |-> <<>>,
           comments |-> <<>>]
\* A keyword only when title and post are joined without a separator.
RecSplit == [title |-> <<"m", "c">>, url |-> "url-split", post |-> <<"p">>,
             comments |-> <<>>]

\* Artifacts: a JSON object has one record per title.  The records of an
\* artifact are taken from a list of records in the order of that list.
ArtifactsOf(records, n) ==
    { LET Chosen(r) == r \in S IN SelectSeq(records, Chosen) :
        S \in { T \in SUBSET { records[i] : i \in 1..Len(records) } :
                  Cardinality(T) <= n } }

FilesOf(records, n) ==
    {MissingFile} \cup { [exists |-> TRUE, data |-> d] : d \in ArtifactsOf(records, n) }

\* For the key pool: no artifact, one without a candidate, one with one.
KeyFiles == { MissingFile, [exists |-> TRUE, data |-> <<RecCat>>],
              [exists |-> TRUE, data |-> <<RecMCP, RecCat>>] }
ScoreFiles == FilesOf(<<RecMCP, RecAI, RecDog, RecCat, RecSplit>>, MaxData)

\* Items of a response array.
\* Every index from below the range to above it, and the scores below, at
\* and above the cutoff on the first two candidates.
WellTypedItems ==
    { Obj(JInt(i), JInt(7), "a") : i \in 0..(MaxData + 1) }
    \cup { Obj(JInt(i), JInt(sc), "a") : i \in 1..2, sc \in {4, 5} }
OddItems ==
    { Obj(Missing, JInt(7), "a"), Obj(JStr, JInt(7), "a"), Obj(JNull, JInt(7), "a"),
      Obj(JFloat(10), JInt(7), "a"), Obj(JFloat(95), JInt(7), "a"),
      Obj(JInt(1), Missing, "a"), Obj(JInt(1), JNumStr(7), "a"),
      Obj(JInt(1), JStr, "a"), Obj(JInt(1), JFloat(59), "a"),
      Obj(JInt(1), JNull, "a"), Obj(JInt(1), JInt(11), "a"),
      Obj(JInt(1), JInt(0 - 2), ""), NotAnObject }

SeqsUpTo(S, n) == UNION { [1..k -> S] : k \in 0..n }

\* Arrays of well-typed items, and arrays with one odd item in them.
ResponseArrays ==
    SeqsUpTo(WellTypedItems, MaxItems)
    \cup { <<x>> : x \in OddItems }
    \cup { <<Obj(JInt(1), JInt(5), "a"), x>> : x \in OddItems }
    \cup { <<x, Obj(JInt(2), JInt(7), "a")>> : x \in OddItems }

GoodArray == JArray(<<Obj(JInt(1), JInt(7), "a")>>)

\* Texts after strip(): bare or fenced arrays, other JSON, prose, nothing.
ScoreTexts ==
    { <<JsonDoc(JArray(arr))>> : arr \in ResponseArrays }
    \cup { <<Fence("json"), JsonDoc(GoodArray), Fence("")>>,
           <<Fence(""), JsonDoc(GoodArray), Fence("")>>,
           <<Fence("json"), JsonDoc(GoodArray)>>,
           <<Fence("JSON"), JsonDoc(GoodArray), Fence("")>>,
           <<Prose, Fence("json"), JsonDoc(GoodArray), Fence("")>>,
           <<JsonDoc(GoodArray), Prose>>,
           <<Fence("json"), Fence("")>>,
           <<Prose>>, <<>>,
           <<JsonDoc(JObject(2))>>, <<JsonDoc(JObject(0))>>,
           <<JsonDoc(JString(3))>>, <<JsonDoc(JNumber)>> }

KeyTexts == { <<JsonDoc(GoodArray)>>, <<Prose>>, <<>> }

ScoredMCP == [title |-> RecMCP.title, url |-> RecMCP.url, score |-> 7,
              analysis |-> "a", comment_count |-> 2]
LeadLists == { <<>>, <<ScoredMCP>> }

(***************************************************************************)
(* Specifications.                                                         *)
(***************************************************************************)
InitScoring ==
    /\ pc = "idle"
    /\ cur = 1
    /\ op = "none"
    /\ attempt = 0
    /\ entry = 0 - 1
    /\ calls = 0
    /\ burnt = [a \in Agents |-> {}]
    /\ data = MissingFile
    /\ cands = [a \in Agents |-> <<>>]
    /\ raw = NoneRet
    /\ status = "none"
    /\ err = ""
    /\ all_scored = <<>>
    /\ high_signal = <<>>
    /\ text_out = NoneRet
    /\ report_leads = <<>>
    /\ output_path = FALSE
    /\ scouts_dir = NoEntries
    /\ reports = <<>>
    /\ report_md = NoReport

\* No Reddit pipeline is running.
InitNoReddit ==
    /\ leads = <<>>
    /\ reddit_data = <<>>
    /\ json_file = MissingFile
    /\ fetched = {}
    /\ rpc = "none"
    /\ li = 0

\* No scan is running.
InitNoScan ==
    /\ scout = "none"
    /\ ch = 0
    /\ spc = "none"
    /\ trace = <<>>
    /\ scan_leads = <<>>

\* The methods run on their own, outside main.
InitNoMain ==
    /\ platforms = <<>>
    /\ mi = 0
    /\ mpc = "none"
    /\ stages = <<>>
    /\ hn_file = MissingFile
    /\ campaign_file = <<>>

\* No comment fetch is running.
InitNoComments ==
    /\ cpc = "none"
    /\ thread = <<>>
    /\ collected = <<>>
    /\ flat = <<>>

\* A process with any environment; agents are constructed as it runs.
Init ==
    /\ environ \in Environs
    /\ agents = [a \in Agents |-> Unbuilt]
    /\ InitScoring
    /\ InitNoReddit
    /\ InitNoScan
    /\ InitNoMain
    /\ InitNoComments

Next ==
    \/ \E a \in Agents, kind \in {"reviewer", "campaign"} : Construct(a, kind)
    \/ \E a \in Agents, file \in KeyFiles : AnalyzeLeads(a, file)
    \/ \E a \in Agents, sl \in LeadLists : GenerateInsights(a, sl)
    \/ \E a \in Agents, entries \in KeyEntries : GeneratePlaybook(a, entries)
    \/ \E text \in KeyTexts : ServiceOk(text)
    \/ \E msg \in QuotaMessages \cup OtherMessages : ServiceRaises(msg)

Spec == Init /\ [][Next]_vars

\* The same process when every request fails on quota.
NextQuota ==
    \/ \E a \in Agents, kind \in {"reviewer", "campaign"} : Construct(a, kind)
    \/ \E a \in Agents, file \in KeyFiles : AnalyzeLeads(a, file)
    \/ \E a \in Agents, sl \in LeadLists : GenerateInsights(a, sl)
    \/ \E a \in Agents, entries \in KeyEntries : GeneratePlaybook(a, entries)
    \/ \E msg \in QuotaMessages : ServiceRaises(msg)

SpecQuota == Init /\ [][NextQuota]_vars

\* One agent of either kind with any environment.  generate_content is a
\* blocking call of the single thread that runs _call_llm: it returns or it
\* raises, and the loop takes its next step.
Responds ==
    \/ \E text \in KeyTexts : ServiceOk(text)
    \/ \E msg \in QuotaMessages \cup OtherMessages : ServiceRaises(msg)

NextCall ==
    \/ \E kind \in {"reviewer", "campaign"} : Construct(1, kind)
    \/ \E file \in KeyFiles : AnalyzeLeads(1, file)
    \/ \E sl \in LeadLists : GenerateInsights(1, sl)
    \/ \E entries \in KeyEntries : GeneratePlaybook(1, entries)
    \/ Responds

SpecCall == Init /\ [][NextCall]_vars /\ WF_vars(Responds)

\* One reviewer with a full pool, scoring any artifact with any response.
InitScore ==
    /\ environ = FullEnviron
    /\ agents = [a \in Agents |-> IF a = 1 THEN NewAgent("reviewer", environ)
                                  ELSE Unbuilt]
    /\ InitScoring
    /\ InitNoReddit
    /\ InitNoScan
    /\ InitNoMain
    /\ InitNoComments

NextScore ==
    \/ op = "none" /\ \E file \in ScoreFiles : AnalyzeLeads(1, file)
    \/ \E text \in ScoreTexts : ServiceOk(text)
    \/ \E msg \in QuotaMessages \cup OtherMessages : ServiceRaises(msg)

SpecScore == InitScore /\ [][NextScore]_vars

\* The leads display_report is given: scored leads as analyze_leads returns
\* them; the title of the second holds a "|".
ScoredPipe == [title |-> <<"A", "|", "B">>, url |-> "url-pipe", score |-> 5,
               analysis |-> "a", comment_count |-> 0]
ReportLists == { <<>>, <<ScoredMCP>>, <<ScoredMCP, ScoredPipe>> }

\* One reviewer in any environment: it scores artifacts and writes reports.
NextReport ==
    \/ Construct(1, "reviewer")
    \/ \E file \in KeyFiles : AnalyzeLeads(1, file)
    \/ \E ls \in ReportLists, out \in BOOLEAN : DisplayReport(1, ls, out)
    \/ \E text \in KeyTexts : ServiceOk(text)
    \/ \E msg \in QuotaMessages \cup OtherMessages : ServiceRaises(msg)

SpecReport == Init /\ [][NextReport]_vars

(***************************************************************************)
(* The Reddit pipeline (run_reddit): the title-keyed map of phase 1 and    *)
(* phase 2, RedditScout.enrich_leads with the merge and the second write.  *)
(* A comment request is the point where control leaves the program.        *)
(***************************************************************************)
RComment(text, depth) == [author |-> "u", text |-> text, score |-> 1, depth |-> depth]

\* A lead as RedditScout.scan appends it.
Post(title, subreddit, id) ==
    [source |-> "Reddit", subreddit |-> subreddit, title |-> title,
     url |-> <<"https://www.reddit.com/", id>>, reddit_id |-> id,
     text |-> <<>>, upvotes |-> 1, comment_count |-> 3, comments |-> <<>>]

PostMCP == Post(<<"M", "C", "P">>, "mcp", "p1")
PostLLM == Post(<<"L", "L", "M">>, "LLMDevs", "p2")
PostMCP2 == Post(<<"M", "C", "P">>, "ClaudeAI", "p3")
PostSDK == Post(<<"S", "D", "K">>, "typescript", "")
PostCat == Post(<<"c", "a", "t">>, "startups", "p5")

\* The lead lists of a scan: leads_t1 + leads_t2, not empty.
Scans ==
    { LET Chosen(r) == r \in S IN
      SelectSeq(<<PostMCP, PostLLM, PostMCP2, PostSDK, PostCat>>, Chosen) :
        S \in { T \in SUBSET {PostMCP, PostLLM, PostMCP2, PostSDK, PostCat} :
                  Cardinality(T) >= 1 /\ Cardinality(T) <= MaxLeads } }

\* An assignment that adds a record whether or not the title is there.
DictPut_AlwaysAppend(d, rec) == Append(d, rec)

\* d[rec.title] = rec on a dict kept in insertion order.
DictPut(d, rec) ==
    IF \E i \in 1..Len(d) : d[i].title = rec.title
    THEN [i \in 1..Len(d) |-> IF d[i].title = rec.title THEN rec ELSE d[i]]
    ELSE Append(d, rec)

\* The record of phase 1 for one lead.
Phase1Record(lead) ==
    [title |-> lead.title, url |-> lead.url, subreddit |-> lead.subreddit,
     reddit_id |-> lead.reddit_id, upvotes |-> lead.upvotes, post |-> lead.text,
     comment_count |-> lead.comment_count, comments |-> <<>>]

\* Phase 1: reddit_data built from the leads, from lead i on.
RECURSIVE BuildRedditData(_, _, _)
BuildRedditData(ls, i, d) ==
    IF i > Len(ls) THEN d
    ELSE BuildRedditData(ls, i + 1, DictPut(d, Phase1Record(ls[i])))

\* json.dump(reddit_data, f): the artifact replaced as a whole.
JsonDump(d) == [exists |-> TRUE, data |-> d]

\* Phase 2: reddit_data[lead["title"]]["comments"] = lead.get("comments", [])
\* for every lead, from lead i on.
RECURSIVE MergeComments(_, _, _)
MergeComments(d, ls, i) ==
    IF i > Len(ls) THEN d
    ELSE MergeComments(
            [k \in 1..Len(d) |-> IF d[k].title = ls[i].title
                                 THEN [d[k] EXCEPT !.comments = ls[i].comments]
                                 ELSE d[k]],
            ls, i + 1)

\* {lead["title"] for lead in high_signal}
TitlesOf(scored) == { scored[j].title : j \in 1..Len(scored) }

\* The test of enrich_leads left out: every lead is enriched.
Selected_All(lead, titles) == TRUE

\* lead["title"] in high_signal_titles
Selected(lead, titles) == lead.title \in titles

\* An enrich_leads that fetches once per title: for the first lead of it.
Requests_OncePerTitle(ls, titles, i) ==
    /\ Selected(ls[i], titles)
    /\ ls[i].reddit_id # ""
    /\ \A j \in 1..(i - 1) : ls[j].title # ls[i].title

\* enrich_leads calls fetch_comments for lead i; fetch_comments issues a
\* request unless the lead has no reddit_id.
Requests(ls, titles, i) == Selected(ls[i], titles) /\ ls[i].reddit_id # ""

\* The first position from i on at which the loop issues a request, or
\* Len(ls) + 1 when it issues none.
RECURSIVE NextRequest(_, _, _)
NextRequest(ls, titles, i) ==
    IF i > Len(ls) THEN i
    ELSE IF Requests(ls, titles, i) THEN i
    ELSE NextRequest(ls, titles, i + 1)

\* What fetch_comments returns for a response: the comments of a 200
\* response, [] for any other status.
FetchResult(resp) == IF resp.status = 200 THEN resp.comments ELSE <<>>

FetchResponses ==
    { [status |-> 200, comments |-> cs] :
        cs \in { <<>>, <<RComment("r1", 0)>>, <<RComment("r1", 0), RComment("r2", 1)>> } }
    \cup { [status |-> 404, comments |-> <<>>] }

\* run_reddit from the loop of enrich_leads standing at position i: the next
\* request, or the end of the loop, the merge into reddit_data and the
\* second write of the artifact.
EnrichFrom(ls, i) ==
    LET next == NextRequest(ls, TitlesOf(high_signal), i) IN
    /\ leads' = ls
    /\ li' = next
    /\ IF next <= Len(ls)
       THEN /\ rpc' = "enrich"
            /\ fetched' = fetched \cup {next}
            /\ UNCHANGED <<reddit_data, json_file>>
       ELSE /\ rpc' = "report"
            /\ fetched' = fetched
            /\ reddit_data' = MergeComments(reddit_data, ls, 1)
            /\ json_file' = JsonDump(reddit_data')

\* run_reddit after analyze_leads returned: "if high_signal:" and the entry
\* of enrich_leads.
Phase2Start ==
    /\ rpc = "scored"
    /\ IF Len(high_signal) = 0
       THEN /\ rpc' = "report"
            /\ UNCHANGED <<leads, reddit_data, json_file, fetched, li>>
       ELSE EnrichFrom(leads, 1)
    /\ UNCHANGED llmVars
    /\ UNCHANGED scoreVars
    /\ UNCHANGED restVars

\* The comment request of lead li is answered: lead["comments"] is set, and
\* the loop goes on.
FetchReturns(resp) ==
    /\ rpc = "enrich"
    /\ EnrichFrom([leads EXCEPT ![li].comments = FetchResult(resp)], li + 1)
    /\ UNCHANGED llmVars
    /\ UNCHANGED scoreVars
    /\ UNCHANGED restVars

\* The lists analyze_leads can return for an artifact: scored leads of
\* records that pass the prefilter.
ScoredOf(rec) ==
    [title |-> rec.title, url |-> rec.url, score |-> 7, analysis |-> "a",
     comment_count |-> Len(rec.comments)]

HighSignalLists(d) ==
    { LET Chosen(rec) == rec.title \in S
          picked == SelectSeq(d, Chosen)
      IN  [j \in 1..Len(picked) |-> ScoredOf(picked[j])] :
        S \in SUBSET { d[i].title : i \in { k \in 1..Len(d) : PassesPrefilter(d[k]) } } }

\* run_reddit at line 167: the artifact of phase 1 is written and the scorer
\* has returned a list.
InitEnrich ==
    /\ environ = FullEnviron
    /\ agents = [a \in Agents |-> Unbuilt]
    /\ pc = "idle"
    /\ cur = 1
    /\ op = "none"
    /\ attempt = 0
    /\ entry = 0 - 1
    /\ calls = 0
    /\ burnt = [a \in Agents |-> {}]
    /\ data = MissingFile
    /\ cands = [a \in Agents |-> <<>>]
    /\ raw = NoneRet
    /\ status = "none"
    /\ err = ""
    /\ all_scored = <<>>
    /\ text_out = NoneRet
    /\ report_leads = <<>>
    /\ output_path = FALSE
    /\ report_md = NoReport
    /\ scouts_dir = NoEntries
    /\ reports = <<>>
    /\ leads \in Scans
    /\ reddit_data = BuildRedditData(leads, 1, <<>>)
    /\ json_file = JsonDump(reddit_data)
    /\ high_signal \in HighSignalLists(reddit_data)
    /\ fetched = {}
    /\ rpc = "scored"
    /\ li = 0
    /\ InitNoScan
    /\ InitNoMain
    /\ InitNoComments

NextEnrich ==
    \/ Phase2Start
    \/ \E resp \in FetchResponses : FetchReturns(resp)

SpecEnrich == InitEnrich /\ [][NextEnrich]_vars

\* run_reddit at line 164: the artifact of phase 1 is written and a reviewer
\* is constructed on it; analyze_leads then scores that artifact.
InitRedditScore ==
    /\ environ = FullEnviron
    /\ agents = [a \in Agents |-> IF a = 1 THEN NewAgent("reviewer", environ)
                                  ELSE Unbuilt]
    /\ InitScoring
    /\ leads \in Scans
    /\ reddit_data = BuildRedditData(leads, 1, <<>>)
    /\ json_file = JsonDump(reddit_data)
    /\ fetched = {}
    /\ rpc = "written"
    /\ li = 0
    /\ InitNoScan
    /\ InitNoMain
    /\ InitNoComments

NextRedditScore ==
    \/ op = "none" /\ AnalyzeLeads(1, json_file)
    \/ \E text \in KeyTexts : ServiceOk(text)
    \/ \E msg \in QuotaMessages \cup OtherMessages : ServiceRaises(msg)

SpecRedditScore == InitRedditScore /\ [][NextRedditScore]_vars

\* The comments _generate_insights reads for a lead: those of the candidate
\* of that title, the first four of them, without the ones of empty text.
TopComments(candidates, title) ==
    LET HasTitle(info) == info.title = title
        HasText(c) == c.text # ""
        hits == SelectSeq(candidates, HasTitle)
        comments == IF Len(hits) = 0 THEN <<>> ELSE hits[1].comments
    IN  SelectSeq(SubSeq(comments, 1, IF Len(comments) < 4 THEN Len(comments) ELSE 4),
                  HasText)

\* run_reddit at line 167 with its reviewer: analyze_leads has read the
\* artifact of phase 1, stored its candidates and returned a list.
InitRedditReport ==
    /\ environ = FullEnviron
    /\ agents = [a \in Agents |-> IF a = 1 THEN NewAgent("reviewer", environ)
                                  ELSE Unbuilt]
    /\ pc = "idle"
    /\ cur = 1
    /\ op = "none"
    /\ attempt = 0
    /\ entry = 0 - 1
    /\ calls = 0
    /\ burnt = [a \in Agents |-> {}]
    /\ data = MissingFile
    /\ raw = NoneRet
    /\ status = "none"
    /\ err = ""
    /\ all_scored = <<>>
    /\ text_out = NoneRet
    /\ report_leads = <<>>
    /\ output_path = FALSE
    /\ report_md = NoReport
    /\ scouts_dir = NoEntries
    /\ reports = <<>>
    /\ leads \in Scans
    /\ reddit_data = BuildRedditData(leads, 1, <<>>)
    /\ json_file = JsonDump(reddit_data)
    /\ cands = [a \in Agents |-> IF a = 1 THEN _prefilter(json_file.data) ELSE <<>>]
    /\ high_signal \in HighSignalLists(reddit_data)
    /\ fetched = {}
    /\ rpc = "scored"
    /\ li = 0
    /\ InitNoScan
    /\ InitNoMain
    /\ InitNoComments

\* run_reddit at line 183: display_report(high_signal, output_path=...).
RedditReport ==
    /\ rpc = "report"
    /\ op = "none"
    /\ DisplayReport(1, high_signal, TRUE)

NextRedditReport ==
    \/ Phase2Start
    \/ \E resp \in FetchResponses : FetchReturns(resp)
    \/ RedditReport
    \/ \E text \in KeyTexts : ServiceOk(text)
    \/ \E msg \in QuotaMessages \cup OtherMessages : ServiceRaises(msg)

SpecRedditReport == InitRedditReport /\ [][NextRedditReport]_vars

(***************************************************************************)
(* The comment fetches: RedditScout.fetch_comments with flatten, and       *)
(* HackerNewsScout.get_comments with flatten_comments.                     *)
(***************************************************************************)
\* Reply trees of n nodes.  A node has a kind ("t1" is a comment, "more" a
\* stub without replies) and its replies; Hacker News nodes have no kind
\* that its adapter reads.
RECURSIVE ForestsOf(_)
ForestsOf(n) ==
    IF n = 0 THEN { <<>> }
    ELSE UNION { { <<[kind |-> "t1", replies |-> c]>> \o r :
                     c \in ForestsOf(a), r \in ForestsOf(n - 1 - a) } :
                 a \in 0..(n - 1) }
         \cup { <<[kind |-> "more", replies |-> <<>>]>> \o r : r \in ForestsOf(n - 1) }

\* Each node named by its author: the path of positions that leads to it.
RECURSIVE Labelled(_, _)
Labelled(forest, prefix) ==
    [i \in 1..Len(forest) |->
        [kind |-> forest[i].kind, author |-> Append(prefix, i),
         replies |-> Labelled(forest[i].replies, Append(prefix, i))]]

\* Listings as long as the reply cap and longer: n top-level comments, and
\* max_comments of them with one reply below the last.
Row(n) == [i \in 1..n |-> [kind |-> "t1", replies |-> <<>>]]
LongForests ==
    { Row(max_comments), Row(max_comments + 1),
      [Row(max_comments) EXCEPT ![max_comments].replies = Row(1)] }

Threads ==
    { Labelled(f, <<>>) :
        f \in UNION { ForestsOf(n) : n \in 0..MaxNodes } \cup LongForests }

\* The comment flatten appends for a child at a depth.
RedditComment(child, depth) ==
    [author |-> child.author, text |-> "body", score |-> 1, depth |-> depth]

\* flatten with every reply at the depth of its parent.
RECURSIVE flatten_same_depth(_, _, _, _)
flatten_same_depth(children_list, i, depth, comments) ==
    IF i > Len(children_list) THEN comments
    ELSE LET child == children_list[i] IN
         IF child.kind # "t1"
         THEN flatten_same_depth(children_list, i + 1, depth, comments)
         ELSE LET with == Append(comments, RedditComment(child, depth))
                  deeper == IF Len(child.replies) > 0
                            THEN flatten_same_depth(child.replies, 1, depth, with)
                            ELSE with
              IN  flatten_same_depth(children_list, i + 1, depth, deeper)

\* flatten(children_list, depth), from child i on, appending to comments.
RECURSIVE flatten(_, _, _, _)
flatten(children_list, i, depth, comments) ==
    IF i > Len(children_list) THEN comments
    ELSE LET child == children_list[i] IN
         IF child.kind # "t1"
         THEN flatten(children_list, i + 1, depth, comments)
         ELSE LET with == Append(comments, RedditComment(child, depth))
                  deeper == IF Len(child.replies) > 0
                            THEN flatten(child.replies, 1, depth + 1, with)
                            ELSE with
              IN  flatten(children_list, i + 1, depth, deeper)

\* comments[:max_comments]
Cap(comments) ==
    SubSeq(comments, 1, IF Len(comments) < max_comments THEN Len(comments)
                        ELSE max_comments)

\* The response of a comment request: status 0 stands for a request that
\* raised; `json` tells whether the body decodes to the expected listing.
CommentResponse(code, json, listing) ==
    [status |-> code, json |-> json, listing |-> listing]
CommentResponses ==
    { CommentResponse(0, FALSE, <<>>), CommentResponse(404, FALSE, <<>>),
      CommentResponse(200, FALSE, <<>>) }
    \cup { CommentResponse(200, TRUE, t) : t \in Threads }

\* The closure list of fetch_comments when flatten(comment_listing) returns.
Flattened(resp) ==
    IF resp.status = 0 \/ resp.status # 200 \/ ~resp.json THEN <<>>
    ELSE flatten(resp.listing, 1, 0, <<>>)

\* What fetch_comments returns once its request is answered.
fetch_comments(resp) ==
    IF resp.status = 0 \/ resp.status # 200 \/ ~resp.json THEN <<>>
    ELSE Cap(Flattened(resp))

\* The comment flatten_comments appends for a child.
HNComment(child) == [author |-> child.author, text |-> "text", created_at |-> "date"]

\* flatten_comments(children), from child i on, appending to comments.
RECURSIVE flatten_comments(_, _, _)
flatten_comments(children, i, comments) ==
    IF i > Len(children) THEN comments
    ELSE LET with == Append(comments, HNComment(children[i]))
             deeper == IF Len(children[i].replies) > 0
                       THEN flatten_comments(children[i].replies, 1, with)
                       ELSE with
         IN  flatten_comments(children, i + 1, deeper)

\* What get_comments returns once its request is answered.
get_comments(resp) ==
    IF resp.status = 0 \/ ~resp.json THEN <<>>
    ELSE flatten_comments(resp.listing, 1, <<>>)

\* fetch_comments(lead) up to its request; a lead without reddit_id gets [].
FetchCommentsCall(lead) ==
    /\ cpc = "none"
    /\ thread' = <<>>
    /\ collected' = <<>>
    /\ flat' = <<>>
    /\ cpc' = IF lead.reddit_id = "" THEN "reddit_done" ELSE "reddit"
    /\ UNCHANGED <<llmVars, scoreVars, redditVars, scanVars, mainVars>>

\* The comment request of fetch_comments is answered.
FetchCommentsReturns(resp) ==
    /\ cpc = "reddit"
    /\ thread' = resp.listing
    /\ collected' = Flattened(resp)
    /\ flat' = fetch_comments(resp)
    /\ cpc' = "reddit_done"
    /\ UNCHANGED <<llmVars, scoreVars, redditVars, scanVars, mainVars>>

\* get_comments(object_id) up to its request.
GetCommentsCall ==
    /\ cpc = "none"
    /\ thread' = <<>>
    /\ collected' = <<>>
    /\ flat' = <<>>
    /\ cpc' = "hn"
    /\ UNCHANGED <<llmVars, scoreVars, redditVars, scanVars, mainVars>>

\* The item request of get_comments is answered.
GetCommentsReturns(resp) ==
    /\ cpc = "hn"
    /\ thread' = resp.listing
    /\ collected' = get_comments(resp)
    /\ flat' = get_comments(resp)
    /\ cpc' = "hn_done"
    /\ UNCHANGED <<llmVars, scoreVars, redditVars, scanVars, mainVars>>

\* One comment fetch of either adapter, for any response.
InitComments ==
    /\ environ = FullEnviron
    /\ agents = [a \in Agents |-> Unbuilt]
    /\ InitScoring
    /\ InitNoReddit
    /\ InitNoScan
    /\ InitNoMain
    /\ InitNoComments

NextComments ==
    \/ \E lead \in {PostMCP, PostSDK} : FetchCommentsCall(lead)
    \/ \E resp \in CommentResponses : FetchCommentsReturns(resp)
    \/ GetCommentsCall
    \/ \E resp \in CommentResponses \ {CommentResponse(404, FALSE, <<>>)} :
           GetCommentsReturns(resp)

SpecComments == InitComments /\ [][NextComments]_vars

(***************************************************************************)
(* The scans of the adapters: RedditScout.scan over its subreddits and     *)
(* HackerNewsScout.scan over its keywords.  A listing request is the point *)
(* where control leaves the program; the item request of a retained hit    *)
(* is answered within the processing of its listing.                       *)
(***************************************************************************)
\* Two of the configured channels of each adapter.
subreddits == <<"mcp", "AI_Agents">>
keywords == <<"Model Context Protocol", "MCP server">>
Channels(sc) == IF sc = "reddit" THEN subreddits ELSE keywords

\* The events of a scan, on channel c.
Get(c) == [ev |-> "get", ch |-> c, v |-> 0]
Resp(c, code) == [ev |-> "resp", ch |-> c, v |-> code]      \* 0: the request raised
Sleep(c, tenths) == [ev |-> "sleep", ch |-> c, v |-> tenths]
Caught(c) == [ev |-> "except", ch |-> c, v |-> 0]
ItemGet(c, id) == [ev |-> "item", ch |-> c, v |-> id]
Listed(c, id) == [ev |-> "hit", ch |-> c, v |-> id]         \* a hit of the response

\* The children of a Reddit listing: a post, a stickied post, and a post
\* whose created_utc is null, on which datetime.fromtimestamp raises.
Child(title, id, stickied, created_ok) ==
    [title |-> title, id |-> id, stickied |-> stickied, created_ok |-> created_ok]
RedditChildren ==
    { Child(<<"M", "C", "P">>, "p1", FALSE, TRUE),
      Child(<<"L", "L", "M">>, "p2", FALSE, TRUE),
      Child(<<"r", "u", "l", "e", "s">>, "p0", TRUE, TRUE),
      Child(<<"S", "D", "K">>, "p9", FALSE, FALSE) }

\* The response of a listing request: status 0 stands for a request that
\* raised; `json` tells whether the body decodes.
Listing(code, json, children) == [status |-> code, json |-> json, children |-> children]
RedditListings ==
    { Listing(0, FALSE, <<>>), Listing(429, FALSE, <<>>), Listing(500, FALSE, <<>>),
      Listing(200, FALSE, <<>>) }
    \cup { Listing(200, TRUE, cs) : cs \in SeqsUpTo(RedditChildren, MaxPosts) }

\* "for post in posts" of RedditScout.scan from post i on: the leads after
\* it, and whether it was left by an exception.
RECURSIVE ProcessPosts(_, _, _, _)
ProcessPosts(posts, i, subreddit, acc) ==
    IF i > Len(posts) THEN [leads |-> acc, raised |-> FALSE]
    ELSE IF posts[i].stickied THEN ProcessPosts(posts, i + 1, subreddit, acc)
    ELSE IF ~posts[i].created_ok THEN [leads |-> acc, raised |-> TRUE]
    ELSE ProcessPosts(posts, i + 1, subreddit,
                      Append(acc, Post(posts[i].title, subreddit, posts[i].id)))

\* The loop over the channels goes on after channel c: the request of the
\* next channel, or the end of the scan.
NextChannel(c, events, found) ==
    /\ ch' = c + 1
    /\ scan_leads' = found
    /\ scout' = scout
    /\ IF c < Len(Channels(scout))
       THEN /\ spc' = "get"
            /\ trace' = trace \o events \o <<Get(c + 1)>>
       ELSE /\ spc' = "done"
            /\ trace' = trace \o events

\* A scan in which a 429 is taken like any other status.
IsRateLimited_Never(code) == FALSE

\* response.status_code == 429
IsRateLimited(code) == code = 429

\* The body of the loop of RedditScout.scan on the response it works with.
RedditHandle(resp) ==
    LET got == <<Resp(ch, resp.status)>> IN
    IF resp.status = 0 THEN NextChannel(ch, got \o <<Caught(ch)>>, scan_leads)
    ELSE IF resp.status # 200 THEN NextChannel(ch, got, scan_leads)
    ELSE IF ~resp.json THEN NextChannel(ch, got \o <<Caught(ch)>>, scan_leads)
    ELSE LET r == ProcessPosts(resp.children, 1, subreddits[ch], scan_leads) IN
         IF r.raised THEN NextChannel(ch, got \o <<Caught(ch)>>, r.leads)
         ELSE NextChannel(ch, got \o <<Sleep(ch, REQUEST_DELAY)>>, r.leads)

\* scan() of either adapter up to its first request.
ScanStart(sc) ==
    /\ spc = "none"
    /\ scout' = sc
    /\ ch' = 1
    /\ spc' = "get"
    /\ trace' = <<Get(1)>>
    /\ scan_leads' = <<>>
    /\ UNCHANGED <<llmVars, scoreVars, redditVars, mainVars, commentVars>>

\* RedditScout.scan: the first request of a channel is answered.
RedditGetReturns(resp) ==
    /\ scout = "reddit"
    /\ spc = "get"
    /\ IF IsRateLimited(resp.status)
       THEN /\ spc' = "retry"
            /\ trace' = trace \o <<Resp(ch, resp.status), Sleep(ch, RateLimitSleep),
                                    Get(ch)>>
            /\ UNCHANGED <<scout, ch, scan_leads>>
       ELSE RedditHandle(resp)
    /\ UNCHANGED <<llmVars, scoreVars, redditVars, mainVars, commentVars>>

\* RedditScout.scan: the request repeated after a 429 is answered.
RedditRetryReturns(resp) ==
    /\ scout = "reddit"
    /\ spc = "retry"
    /\ RedditHandle(resp)
    /\ UNCHANGED <<llmVars, scoreVars, redditVars, mainVars, commentVars>>

\* The hits of a Hacker News search: `age` is the age of the hit in hours,
\* `item` the response of its item request; created_at may be missing.
Hit(title, id, age, created_ok, item) ==
    [title |-> title, objectID |-> id, age |-> age, created_ok |-> created_ok,
     item |-> item]
OneReply == Labelled(<<[kind |-> "t1", replies |-> <<>>]>>, <<>>)
HNHits ==
    { Hit(<<"M", "C", "P">>, 1, 1, TRUE, CommentResponse(200, TRUE, OneReply)),
      Hit(<<"L", "L", "M">>, 2, 23, TRUE, CommentResponse(0, FALSE, <<>>)),
      Hit(<<"e", "d", "g", "e">>, 3, hours_back, TRUE, CommentResponse(200, TRUE, OneReply)),
      Hit(<<"o", "l", "d">>, 4, 30, TRUE, CommentResponse(200, TRUE, OneReply)),
      Hit(<<"b", "a", "d">>, 5, 1, FALSE, CommentResponse(200, TRUE, OneReply)) }

\* The response of a search request: `ok` is false when the request or the
\* decoding of its body raised.
Search(ok, hits) == [ok |-> ok, hits |-> hits]
HNSearches ==
    { Search(FALSE, <<>>) } \cup { Search(TRUE, hs) : hs \in SeqsUpTo(HNHits, MaxPosts) }

\* The lead HackerNewsScout.scan appends for a retained hit.
HNLead(keyword, hit) ==
    [source |-> "HackerNews", keyword_found |-> keyword, title |-> hit.title,
     url |-> <<"https://news.ycombinator.com/item?id=", hit.objectID>>,
     date |-> hit.age, text |-> <<>>, comments |-> get_comments(hit.item)]

\* created_at > time_threshold, with time_threshold = now - hours_back
InWindow(hit) == hit.age < hours_back

\* "for hit in data.get('hits', [])" from hit i on: the leads and the item
\* requests after it, and whether it was left by an exception.
RECURSIVE ProcessHits(_, _, _, _, _)
ProcessHits(hits, i, c, acc, events) ==
    IF i > Len(hits) THEN [leads |-> acc, events |-> events, raised |-> FALSE]
    ELSE IF ~hits[i].created_ok THEN [leads |-> acc, events |-> events, raised |-> TRUE]
    ELSE IF InWindow(hits[i])
         THEN ProcessHits(hits, i + 1, c, Append(acc, HNLead(keywords[c], hits[i])),
                          Append(events, ItemGet(c, hits[i].objectID)))
         ELSE ProcessHits(hits, i + 1, c, acc, events)

\* HackerNewsScout.scan: the search request of a keyword is answered.
HNSearchReturns(resp) ==
    /\ scout = "hn"
    /\ spc = "get"
    /\ IF ~resp.ok
       THEN NextChannel(ch, <<Resp(ch, 0), Caught(ch)>>, scan_leads)
       ELSE LET listed == [i \in 1..Len(resp.hits) |-> Listed(ch, resp.hits[i].objectID)]
                r == ProcessHits(resp.hits, 1, ch, scan_leads,
                                 <<Resp(ch, 200)>> \o listed) IN
            IF r.raised THEN NextChannel(ch, r.events \o <<Caught(ch)>>, r.leads)
            ELSE NextChannel(ch, r.events, r.leads)
    /\ UNCHANGED <<llmVars, scoreVars, redditVars, mainVars, commentVars>>

\* One scan of either adapter, for any responses.
InitScan ==
    /\ environ = FullEnviron
    /\ agents = [a \in Agents |-> Unbuilt]
    /\ InitScoring
    /\ InitNoReddit
    /\ InitNoScan
    /\ InitNoMain
    /\ InitNoComments

NextScan ==
    \/ \E sc \in {"reddit", "hn"} : ScanStart(sc)
    \/ \E resp \in RedditListings : RedditGetReturns(resp)
    \/ \E resp \in RedditListings : RedditRetryReturns(resp)
    \/ \E resp \in HNSearches : HNSearchReturns(resp)

SpecScan == InitScan /\ [][NextScan]_vars

(***************************************************************************)
(* main: the stages of one run.  The scan of a pipeline is taken with its  *)
(* result; the campaign stage runs generate_playbook on the agent it       *)
(* constructs, with the LLM requests of that method.                       *)
(***************************************************************************)
\* select_platforms: the list of the choice.
PlatformsOf(choice) ==
    CASE choice = 1 -> <<"hackernews">>
      [] choice = 2 -> <<"reddit">>
      [] choice = 3 -> <<"hackernews", "reddit">>
      [] choice = 4 -> <<"campaign_manager">>
      [] OTHER      -> <<"hackernews", "reddit", "campaign_manager">>

\* The lead lists of a Hacker News scan.
HNLeadA == HNLead(keywords[1], Hit(<<"M", "C", "P">>, 1, 1, TRUE,
                                   CommentResponse(200, TRUE, OneReply)))
HNLeadB == HNLead(keywords[2], Hit(<<"L", "L", "M">>, 2, 23, TRUE,
                                   CommentResponse(0, FALSE, <<>>)))
HNScans == { <<>>, <<HNLeadA>>, <<HNLeadA, HNLeadB>> }

\* The record of hn_data for one lead.
HNRecord(lead) ==
    [title |-> lead.title, date |-> lead.date, url |-> lead.url,
     matched_keywords |-> <<lead.keyword_found>>, post |-> lead.text,
     comments |-> lead.comments]

\* hn_data built from the leads, from lead i on.
RECURSIVE BuildHNData(_, _, _)
BuildHNData(ls, i, d) ==
    IF i > Len(ls) THEN d
    ELSE BuildHNData(ls, i + 1, DictPut(d, HNRecord(ls[i])))

\* The agent slot a constructor of this run fills.
FreeSlot ==
    CHOOSE a \in Agents :
        agents[a].kind = "none" /\ \A b \in 1..(a - 1) : agents[b].kind # "none"

\* A stage of main ends: it returns and main goes on to the next stage, or
\* an exception leaves it; main has no handler, so the exception leaves main.
StageEnds(outcome) ==
    /\ stages' = Append(stages, outcome)
    /\ UNCHANGED platforms
    /\ IF outcome = "raised"
       THEN /\ mpc' = "aborted"
            /\ mi' = mi
       ELSE /\ mpc' = "next"
            /\ mi' = mi + 1

\* platforms = select_platforms()
SelectPlatforms(choice) ==
    /\ mpc = "select"
    /\ platforms' = PlatformsOf(choice)
    /\ mi' = 1
    /\ mpc' = "next"
    /\ UNCHANGED <<stages, hn_file, campaign_file>>
    /\ UNCHANGED <<llmVars, scoreVars, redditVars, scanVars, commentVars>>

\* run_hackernews with the leads of its scan: without leads it returns; with
\* leads it writes the artifact, constructs the reviewer and calls
\* analyze_leads(output_dir=save_dir), a keyword analyze_leads does not
\* take: the call raises TypeError.
RunHackerNews(ls) ==
    /\ mpc = "next"
    /\ mi <= Len(platforms)
    /\ platforms[mi] = "hackernews"
    /\ IF Len(ls) = 0
       THEN /\ StageEnds("returned")
            /\ UNCHANGED <<hn_file, agents>>
       ELSE /\ hn_file' = JsonDump(BuildHNData(ls, 1, <<>>))
            /\ agents' = [agents EXCEPT ![FreeSlot] = NewAgent("reviewer", environ)]
            /\ StageEnds("raised")
    /\ UNCHANGED campaign_file
    /\ UNCHANGED <<environ, pc, cur, op, attempt, entry, calls, burnt>>
    /\ UNCHANGED <<scoreVars, redditVars, scanVars, commentVars>>

\* run_reddit with the leads of its scans: without leads it returns; with
\* leads it writes the artifact of phase 1, constructs the reviewer and
\* calls analyze_leads(output_dir=save_dir), which raises TypeError.
RunReddit(ls) ==
    /\ mpc = "next"
    /\ mi <= Len(platforms)
    /\ platforms[mi] = "reddit"
    /\ leads' = ls
    /\ IF Len(ls) = 0
       THEN /\ StageEnds("returned")
            /\ UNCHANGED <<reddit_data, json_file, rpc, agents>>
       ELSE /\ reddit_data' = BuildRedditData(ls, 1, <<>>)
            /\ json_file' = JsonDump(reddit_data')
            /\ rpc' = "written"
            /\ agents' = [agents EXCEPT ![FreeSlot] = NewAgent("reviewer", environ)]
            /\ StageEnds("raised")
    /\ UNCHANGED <<fetched, li, hn_file, campaign_file>>
    /\ UNCHANGED <<environ, pc, cur, op, attempt, entry, calls, burnt>>
    /\ UNCHANGED <<scoreVars, scanVars, commentVars>>

\* run_campaign_manager: agent = CampaignManagerAgent()
CampaignConstruct ==
    /\ mpc = "next"
    /\ mi <= Len(platforms)
    /\ platforms[mi] = "campaign_manager"
    /\ agents' = [agents EXCEPT ![FreeSlot] = NewAgent("campaign", environ)]
    /\ mpc' = "campaign"
    /\ UNCHANGED <<platforms, mi, stages, hn_file, campaign_file>>
    /\ UNCHANGED <<environ, pc, cur, op, attempt, entry, calls, burnt>>
    /\ UNCHANGED <<scoreVars, redditVars, scanVars, commentVars>>

\* agent.run without the test "if not playbook_md": it writes whatever
\* generate_playbook returned.
CampaignEnds_NoTest(write_ok) ==
    /\ mpc = "campaign"
    /\ pc = "idle"
    /\ op = "playbook"
    /\ StageEnds(IF write_ok THEN "returned" ELSE "raised")
    /\ campaign_file' = IF write_ok
                        THEN (IF text_out.none THEN <<"None">> ELSE text_out.text)
                        ELSE campaign_file
    /\ UNCHANGED hn_file
    /\ UNCHANGED <<llmVars, scoreVars, redditVars, scanVars, commentVars>>

\* agent.run after generate_playbook returned: without a playbook it
\* returns None; with one it writes the file, which may raise OSError.
CampaignEnds(write_ok) ==
    /\ mpc = "campaign"
    /\ pc = "idle"
    /\ op = "playbook"
    /\ IF text_out.none THEN write_ok /\ StageEnds("returned")
       ELSE StageEnds(IF write_ok THEN "returned" ELSE "raised")
    /\ campaign_file' = IF ~text_out.none /\ write_ok THEN text_out.text
                        ELSE campaign_file
    /\ UNCHANGED hn_file
    /\ UNCHANGED <<llmVars, scoreVars, redditVars, scanVars, commentVars>>

\* The stages are over: main prints its last panel and returns.
MainEnds ==
    /\ mpc = "next"
    /\ mi > Len(platforms)
    /\ mpc' = "done"
    /\ UNCHANGED <<platforms, mi, stages, hn_file, campaign_file>>
    /\ UNCHANGED <<llmVars, scoreVars, redditVars, scanVars, commentVars>>

\* One run of main, with any environment.
InitMain ==
    /\ environ \in Environs
    /\ agents = [a \in Agents |-> Unbuilt]
    /\ InitScoring
    /\ InitNoReddit
    /\ InitNoScan
    /\ InitNoComments
    /\ platforms = <<>>
    /\ mi = 0
    /\ mpc = "select"
    /\ stages = <<>>
    /\ hn_file = MissingFile
    /\ campaign_file = <<>>

NextMain ==
    \/ \E choice \in 1..5 : SelectPlatforms(choice)
    \/ \E ls \in HNScans : RunHackerNews(ls)
    \/ \E ls \in Scans \cup { <<>> } : RunReddit(ls)
    \/ CampaignConstruct
    \/ mpc = "campaign" /\ op = "none"
           /\ \E a \in Agents, entries \in KeyEntries : GeneratePlaybook(a, entries)
    \/ mpc = "campaign" /\ \E text \in KeyTexts : ServiceOk(text)
    \/ mpc = "campaign" /\ \E msg \in QuotaMessages \cup OtherMessages : ServiceRaises(msg)
    \/ \E write_ok \in BOOLEAN : CampaignEnds(write_ok)
    \/ MainEnds

SpecMain == InitMain /\ [][NextMain]_vars

\* A run of main with the campaign manager alone, over any SCOUTS_DIR.
InitCampaign ==
    /\ environ \in Environs
    /\ agents = [a \in Agents |-> Unbuilt]
    /\ InitScoring
    /\ InitNoReddit
    /\ InitNoScan
    /\ InitNoComments
    /\ platforms = PlatformsOf(4)
    /\ mi = 1
    /\ mpc = "next"
    /\ stages = <<>>
    /\ hn_file = MissingFile
    /\ campaign_file = <<>>

NextCampaign ==
    \/ CampaignConstruct
    \/ mpc = "campaign" /\ op = "none"
           /\ \E a \in Agents, entries \in ScoutEntries : GeneratePlaybook(a, entries)
    \/ mpc = "campaign" /\ \E text \in KeyTexts : ServiceOk(text)
    \/ mpc = "campaign" /\ \E msg \in QuotaMessages \cup OtherMessages : ServiceRaises(msg)
    \/ \E write_ok \in BOOLEAN : CampaignEnds(write_ok)
    \/ MainEnds

SpecCampaign == InitCampaign /\ [][NextCampaign]_vars

(***************************************************************************)
(* Properties.                                                             *)
(***************************************************************************)
Built(a) == agents[a].kind # "none"
PoolSize(a) == Len(agents[a].api_keys)
Cursor(a) == agents[a].current_key_index

\* The pool of agent a held keys and the cursor has run past the last one.
Exhausted(a) == Built(a) /\ PoolSize(a) > 0 /\ Cursor(a) >= PoolSize(a)

\* The last method has ended and was analyze_leads.
AnalyzeEnded == pc = "idle" /\ op = "analyze" /\ status # "none"

\* C1: with a pool of k keys and every request failing on quota, one
\* _batch_analyze issues at most 2k requests, then returns an empty list, and
\* no exception escapes.
C1_QuotaBounded ==
    op = "analyze" =>
        /\ calls <= 2 * PoolSize(cur)
        /\ AnalyzeEnded => /\ status = "returned"
                           /\ all_scored = <<>>
                           /\ high_signal = <<>>

\* C1 witness: a pool of two keys, both failed on quota, the list returned.
C1_Witness ==
    /\ AnalyzeEnded
    /\ PoolSize(cur) = 2
    /\ calls = 2
    /\ burnt[cur] = {agents[cur].api_keys[1], agents[cur].api_keys[2]}
    /\ status = "returned"

C3_NoExceptionEscapes == AnalyzeEnded => status = "returned"

\* C4 as claimed: once some pool of the process is exhausted, no request is
\* issued any more, by any agent.
C4_Original == (\E a \in Agents : Exhausted(a)) => pc # "llm"

\* C4 as amended: exhaustion is permanent for the agent instance: the
\* instance stays exhausted, issues no further request, and each of its
\* later methods returns an empty or none result without raising.
C4_ExhaustionPermanentPerAgent ==
    /\ [](\A a \in Agents : Exhausted(a) =>
            /\ agents[a].model = NoModel
            /\ pc = "llm" => cur # a
            /\ (cur = a /\ pc = "idle" /\ status # "none") =>
                   /\ status = "returned"
                   /\ raw.none
                   /\ all_scored = <<>>
                   /\ high_signal = <<>>
                   /\ text_out.none \/ text_out.text = <<>>)
    /\ [][\A a \in Agents : Exhausted(a) => Exhausted(a)']_vars

\* C4 witness: a method has run on an exhausted agent without a request, and
\* an agent constructed in the same process has its first key active.
C4_Witness ==
    /\ Exhausted(cur)
    /\ pc = "idle"
    /\ status = "returned"
    /\ calls = 0
    /\ \E b \in Agents : Built(b) /\ ~Exhausted(b) /\ Cursor(b) = 0
                         /\ agents[b].model # NoModel

\* C5: on each agent 0 <= cursor <= number of keys, the model is set exactly
\* when the cursor is below the number of keys and is then the key at the
\* cursor, a key that failed on quota is not the active one again, no
\* request is in flight without a model, and the cursor never decreases.
C5_CursorInvariant ==
    /\ [](/\ \A a \in Agents : Built(a) =>
               /\ 0 <= Cursor(a)
               /\ Cursor(a) <= PoolSize(a)
               /\ agents[a].model # NoModel <=> Cursor(a) < PoolSize(a)
               /\ agents[a].model # NoModel =>
                      /\ agents[a].model = agents[a].api_keys[Cursor(a) + 1]
                      /\ agents[a].model \notin burnt[a]
          /\ pc = "llm" => agents[cur].model # NoModel)
    /\ [][\A a \in Agents : Built(a) => Cursor(a)' >= Cursor(a)]_vars

\* C5 witness: an agent that went through both of its keys.
C5_Witness ==
    \E a \in Agents :
        /\ PoolSize(a) = 2
        /\ Cursor(a) = 2
        /\ agents[a].model = NoModel
        /\ Cardinality(burnt[a]) = 2

\* C6: a failure that is not a quota failure ends _call_llm at once with no
\* result and leaves every cursor and model as they were; so does a
\* response; a quota failure advances the cursor of the calling agent by
\* one, and nothing else moves a cursor.
C6_OnlyQuotaRotates ==
    [][ /\ (\E msg \in OtherMessages : ServiceRaises(msg)) =>
               /\ agents' = agents
               /\ attempt' = attempt
               /\ pc' = "idle"
               /\ raw'.none
        /\ (\E text \in KeyTexts : ServiceOk(text)) => agents' = agents
        /\ \A a \in Agents :
               Cursor(a)' = Cursor(a) +
                   (IF a = cur /\ \E msg \in QuotaMessages : ServiceRaises(msg)
                    THEN 1 ELSE 0) ]_vars

\* C6 witness: _call_llm ended without a result after one rotation, the
\* model still set: the second request failed for another reason.
C6_Witness ==
    /\ pc = "idle"
    /\ status = "returned"
    /\ raw.none
    /\ calls = 2
    /\ attempt = 1
    /\ Cursor(cur) = 1
    /\ agents[cur].model # NoModel

\* The array the last response decodes to, when it decodes to one.
RespDecoded == json_loads(StripClosingFence(StripOpeningFence(raw.text)))
RespIsArray ==
    /\ ~raw.none
    /\ Len(raw.text) > 0
    /\ RespDecoded.ok
    /\ RespDecoded.val.jt = "array"
RespItems == RespDecoded.val.items

\* The item names a candidate of a prompt of n candidates: an integer in 1..n.
NamesCandidate(item, n) ==
    item.it = "object" /\ item.index.t = "int" /\ 1 <= item.index.v /\ item.index.v <= n

\* C7: each scored lead made from an item with index i in 1..n carries the
\* title and url of the candidate the prompt enumerated at position i, and
\* the items with a missing or out-of-range index are dropped, the others
\* kept in their order.
C7_IndexMapping ==
    (AnalyzeEnded /\ status = "returned" /\ RespIsArray) =>
        LET n == Len(cands[cur])
            Keep(item) == NamesCandidate(item, n)
            kept == SelectSeq(RespItems, Keep)
        IN  /\ Len(all_scored) = Len(kept)
            /\ \A j \in 1..Len(kept) :
                   LET i == kept[j].index.v IN
                   /\ all_scored[j].title = post_list(cands[cur])[i].title
                   /\ all_scored[j].url = cands[cur][i].url

\* C7 witness: two candidates, a response of two items of which the one out
\* of range is dropped and the other scores the second candidate.
C7_Witness ==
    /\ AnalyzeEnded
    /\ status = "returned"
    /\ RespIsArray
    /\ Len(cands[cur]) = 2
    /\ Len(RespItems) = 2
    /\ ~NamesCandidate(RespItems[1], 2)
    /\ Len(all_scored) = 1
    /\ all_scored[1].title = cands[cur][2].title

\* C8: a scored lead is in the list analyze_leads returns if and only if its
\* score is at least 5.
C8_Threshold ==
    (AnalyzeEnded /\ status = "returned") =>
        /\ \A j \in 1..Len(all_scored) :
               (\E i \in 1..Len(high_signal) : high_signal[i] = all_scored[j])
                   <=> all_scored[j].score >= 5
        /\ \A i \in 1..Len(high_signal) :
               \E j \in 1..Len(all_scored) : all_scored[j] = high_signal[i]
        /\ Len(high_signal) =
               Cardinality({j \in 1..Len(all_scored) : all_scored[j].score >= 5})

\* C8 witness: of two scored leads the one scored 5 is returned and the one
\* scored 4 is not.
C8_Witness ==
    /\ AnalyzeEnded
    /\ Len(all_scored) = 2
    /\ Len(high_signal) = 1
    /\ high_signal[1].score = 5
    /\ \E j \in 1..2 : all_scored[j].score = 4

\* C9: the list analyze_leads returns is in descending order of score, and
\* the leads of one score are in the order in which the response listed them.
C9_StableDescending ==
    (AnalyzeEnded /\ status = "returned") =>
        /\ \A i, j \in 1..Len(high_signal) :
               i < j => high_signal[i].score >= high_signal[j].score
        /\ \A sc \in { all_scored[j].score : j \in 1..Len(all_scored) } :
               LET Has(lead) == lead.score = sc IN
               sc >= 5 => SelectSeq(high_signal, Has) = SelectSeq(all_scored, Has)

\* C9 witness: two leads of equal score and different titles are returned.
C9_Witness ==
    /\ AnalyzeEnded
    /\ Len(high_signal) = 2
    /\ high_signal[1].score = high_signal[2].score
    /\ high_signal[1].title # high_signal[2].title

\* C10: phase 2 issues a comment request for a lead only if its title is in
\* the high-signal set, and every lead whose title is not in the set has no
\* comments, in the lead list, in reddit_data and in the JSON artifact.
C10_EnrichOnlyHighSignal ==
    LET titles == TitlesOf(high_signal) IN
    /\ \A i \in fetched : leads[i].title \in titles
    /\ \A i \in 1..Len(leads) :
           leads[i].title \notin titles => leads[i].comments = <<>>
    /\ \A k \in 1..Len(reddit_data) :
           reddit_data[k].title \notin titles => reddit_data[k].comments = <<>>
    /\ json_file.exists
    /\ \A k \in 1..Len(json_file.data) :
           json_file.data[k].title \notin titles => json_file.data[k].comments = <<>>

\* C10 witness: phase 2 is over; a high-signal lead has its comments in the
\* artifact, beside a lead that is not high-signal.
C10_Witness ==
    /\ rpc = "report"
    /\ fetched # {}
    /\ \E k \in 1..Len(json_file.data) : json_file.data[k].comments # <<>>
    /\ \E i \in 1..Len(leads) : leads[i].title \notin TitlesOf(high_signal)

\* C11: in analyze_leads a request to the scoring service is issued only for
\* a prompt whose candidates are records of the artifact that pass the
\* prefilter, and when the artifact is missing or none of its records passes,
\* analyze_leads returns an empty list and has issued no request.
C11_PrefilterNeverBypassed ==
    op = "analyze" =>
        /\ (pc = "llm" \/ calls > 0) =>
               /\ data.exists
               /\ Len(post_list(cands[cur])) > 0
               /\ \A i \in 1..Len(cands[cur]) :
                      /\ PassesPrefilter(cands[cur][i])
                      /\ \E k \in 1..Len(data.data) : data.data[k] = cands[cur][i]
        /\ (AnalyzeEnded /\ (~data.exists \/ \A k \in 1..Len(data.data) :
                                                 ~PassesPrefilter(data.data[k]))) =>
               /\ status = "returned"
               /\ high_signal = <<>>
               /\ calls = 0

\* C11 witness: a request is in flight for one candidate of an artifact of two
\* records, the other record stopped by the prefilter.
C11_Witness ==
    /\ op = "analyze"
    /\ pc = "llm"
    /\ Len(data.data) = 2
    /\ Len(cands[cur]) = 1
    /\ \E k \in 1..2 : ~PassesPrefilter(data.data[k])

\* A keyword is a substring of the lower-cased text.
HasKeyword(text) ==
    \E k \in 1..Len(PREFILTER_KEYWORDS) : IsSubstring(PREFILTER_KEYWORDS[k], Lower(text))

\* C12 as claimed: _prefilter keeps exactly the records with a keyword in the
\* concatenation of title and body, unmodified and in order.
C12_Original ==
    (op = "analyze" /\ data.exists) =>
        LET Keeps(rec) == HasKeyword(rec.title \o rec.post) IN
        cands[cur] = SelectSeq(data.data, Keeps)

\* C12 as amended: _prefilter keeps exactly the records with a keyword in the
\* title, one space and the body joined in that order, unmodified and in the
\* order of the artifact.
C12_PrefilterJoinedBySpace ==
    (op = "analyze" /\ data.exists) =>
        LET Keeps(rec) == HasKeyword(rec.title \o <<" ">> \o rec.post) IN
        cands[cur] = SelectSeq(data.data, Keeps)

\* C12 witness: the title "AI" with an empty body is kept because of the
\* space, and the title "mc" with the body "p" is dropped because of it.
C12_Witness ==
    /\ op = "analyze"
    /\ data.exists
    /\ data.data = <<RecAI, RecSplit>>
    /\ cands[cur] = <<RecAI>>

\* C17 as claimed: every scored lead of the batch scorer, and so every lead
\* analyze_leads returns, has an integer score in 0..10.
C17_ScoreInRange ==
    (AnalyzeEnded /\ status = "returned") =>
        /\ \A j \in 1..Len(all_scored) : all_scored[j].score \in 0..10
        /\ \A j \in 1..Len(high_signal) : high_signal[j].score \in 0..10

\* C18 as claimed, on the Reddit pipeline: the count the prompt enumerates
\* for a candidate, and the comment_count of its scored lead, is the count of
\* comments the adapter recorded for the lead of that title.
C18_EngagementCount ==
    (op = "analyze" /\ (pc = "llm" \/ AnalyzeEnded)) =>
        /\ \A i \in 1..Len(cands[cur]) : \A k \in 1..Len(leads) :
               leads[k].title = cands[cur][i].title =>
                   post_list(cands[cur])[i].comments = leads[k].comment_count
        /\ \A j \in 1..Len(all_scored) : \A k \in 1..Len(leads) :
               leads[k].title = all_scored[j].title =>
                   all_scored[j].comment_count = leads[k].comment_count

\* The paths of the comment nodes of a reply tree: the "t1" nodes reached
\* through "t1" nodes.
RECURSIVE CommentPaths(_)
CommentPaths(forest) ==
    UNION { IF forest[i].kind = "t1"
            THEN {forest[i].author} \cup CommentPaths(forest[i].replies)
            ELSE {} : i \in 1..Len(forest) }

\* Path p comes before path q in depth-first pre-order: p is a proper prefix
\* of q, or p is the smaller at the first position where they differ.
PreOrderBefore(p, q) ==
    \/ Len(p) < Len(q) /\ SubSeq(q, 1, Len(p)) = p
    \/ \E k \in 1..Len(p) :
           /\ k <= Len(q)
           /\ SubSeq(p, 1, k - 1) = SubSeq(q, 1, k - 1)
           /\ p[k] < q[k]

\* C19: the list flatten builds for a Reddit reply tree holds each comment
\* node once, in depth-first pre-order: a parent before all its descendants
\* and immediately before its first child; a top-level reply has depth 0 and
\* a child the depth of its parent plus 1.
C19_FlattenPreOrder ==
    (cpc = "reddit_done" /\ Len(flat) < max_comments) =>
        /\ { flat[i].author : i \in 1..Len(flat) } = CommentPaths(thread)
        /\ \A i, j \in 1..Len(flat) :
               i < j => PreOrderBefore(flat[i].author, flat[j].author)
        /\ \A i \in 1..Len(flat) :
               LET p == flat[i].author IN
               /\ flat[i].depth = Len(p) - 1
               /\ Len(p) = 1 => flat[i].depth = 0
               /\ \A j \in 1..Len(flat) :
                      LET q == flat[j].author IN
                      /\ (Len(q) > Len(p) /\ SubSeq(q, 1, Len(p)) = p) => i < j
                      /\ (Len(q) = Len(p) + 1 /\ SubSeq(q, 1, Len(p)) = p) =>
                             /\ flat[j].depth = flat[i].depth + 1
                             /\ (\A m \in 1..Len(flat) :
                                    (Len(flat[m].author) = Len(q)
                                     /\ SubSeq(flat[m].author, 1, Len(p)) = p)
                                        => q[Len(q)] <= flat[m].author[Len(q)])
                                    => j = i + 1

\* C19 witness: a tree with a grandchild, and a second top-level reply that
\* follows it in the list.
C19_Witness ==
    /\ cpc = "reddit_done"
    /\ \E i \in 1..Len(flat) : flat[i].depth = 2
    /\ Len(flat) = 4
    /\ flat[4].depth = 0

\* C20 as claimed: each comment of get_comments carries a depth field equal to
\* its nesting level, and a parent comes before its children.
C20_DepthField ==
    cpc = "hn_done" =>
        \A i \in 1..Len(flat) :
            /\ "depth" \in DOMAIN flat[i]
            /\ flat[i].depth = Len(flat[i].author) - 1
            /\ \A j \in 1..Len(flat) :
                   (Len(flat[j].author) > Len(flat[i].author)
                    /\ SubSeq(flat[j].author, 1, Len(flat[i].author)) = flat[i].author)
                       => i < j

\* The events of one kind on channel c, in the order of the trace.
EventsOf(kind, c) ==
    LET Is(e) == e.ev = kind /\ e.ch = c IN SelectSeq(trace, Is)

\* The scan has left channel c behind.
ChannelOver(c) == ch > c

\* The leads of the scan that come from channel c.
LeadsOfChannel(c) ==
    LET From(lead) == IF scout = "reddit" THEN lead.subreddit = subreddits[c]
                      ELSE lead.keyword_found = keywords[c]
    IN  SelectSeq(scan_leads, From)

\* C13: in RedditScout.scan a channel is requested twice exactly when its
\* first response is a 429 and never more often; a channel whose last
\* response is not a 200 adds no lead; whatever a channel returns or raises,
\* the scan goes on to every later channel, and the leads collected so far
\* stay in the list it returns.
C13_RetryOnceAndContinue ==
    /\ [](scout = "reddit" =>
            /\ spc \in {"get", "retry", "done"}
            /\ spc = "done" <=> ch > Len(subreddits)
            /\ \A c \in 1..Len(subreddits) :
                   LET gets == Len(EventsOf("get", c))
                       resps == EventsOf("resp", c)
                   IN  /\ gets <= 2
                       /\ gets = 2 <=> (Len(resps) >= 1 /\ resps[1].v = 429)
                       /\ ChannelOver(c) => /\ gets >= 1
                                            /\ Len(resps) = gets
                       /\ (ChannelOver(c) /\ resps[Len(resps)].v # 200) =>
                              LeadsOfChannel(c) = <<>>)
    /\ [][scout = "reddit" =>
            /\ Len(scan_leads') >= Len(scan_leads)
            /\ SubSeq(scan_leads', 1, Len(scan_leads)) = scan_leads]_vars

\* C13 witness: the first channel answered 429 and then failed again, the
\* second was requested all the same and its leads are returned.
C13_Witness ==
    /\ scout = "reddit"
    /\ spc = "done"
    /\ Len(EventsOf("get", 1)) = 2
    /\ EventsOf("resp", 1)[2].v # 200
    /\ Len(LeadsOfChannel(2)) = 2

\* C14 as claimed: a channel on which an exception was raised adds no lead
\* to the list the scan returns.
C14_FailedChannelAddsNothing ==
    \A c \in 1..Len(Channels(scout)) :
        Len(EventsOf("except", c)) > 0 => LeadsOfChannel(c) = <<>>

\* C15 as claimed: when main has ended, by its return or by an exception
\* that left a stage, every stage selected for the run has been executed.
C15_SiblingStagesStillRun ==
    mpc \in {"done", "aborted"} => Len(stages) = Len(platforms)

\* The last lead of the scan with title t.
LastLead(t) ==
    leads[CHOOSE i \in 1..Len(leads) :
              leads[i].title = t /\ \A j \in (i + 1)..Len(leads) : leads[j].title # t]

\* The record without its comments.
Blank(rec) == [rec EXCEPT !.comments = <<>>]

\* C16: the artifact always holds exactly one record per title of the scan,
\* with the field values of phase 1; until the write of phase 2 every record
\* has no comments, and that write changes nothing but the comments of
\* titles for which comments were requested.
C16_ArtifactWrittenWholesale ==
    /\ [](LET d == json_file.data IN
          /\ json_file.exists
          /\ { d[k].title : k \in 1..Len(d) } = { leads[i].title : i \in 1..Len(leads) }
          /\ \A k, m \in 1..Len(d) : d[k].title = d[m].title => k = m
          /\ \A k \in 1..Len(d) :
                 LET l == LastLead(d[k].title) IN
                 /\ d[k].url = l.url
                 /\ d[k].subreddit = l.subreddit
                 /\ d[k].reddit_id = l.reddit_id
                 /\ d[k].upvotes = l.upvotes
                 /\ d[k].post = l.text
                 /\ d[k].comment_count = l.comment_count
                 /\ d[k].comments = IF rpc = "report" THEN l.comments ELSE <<>>)
    /\ [][LET d == json_file.data
              e == json_file'.data
          IN  /\ Len(e) = Len(d)
              /\ \A k \in 1..Len(d) :
                     /\ Blank(e[k]) = Blank(d[k])
                     /\ e[k].comments # d[k].comments =>
                            /\ rpc' = "report"
                            /\ \E i \in fetched' : leads[i].title = e[k].title]_vars

\* C16 witness: after the write of phase 2 the artifact has one record for
\* two leads of one title, with comments, and a record without comments.
C16_Witness ==
    /\ rpc = "report"
    /\ Len(json_file.data) < Len(leads)
    /\ \E k \in 1..Len(json_file.data) : json_file.data[k].comments # <<>>
    /\ \E k \in 1..Len(json_file.data) : json_file.data[k].comments = <<>>

\* C21 as claimed: fetch_comments returns at most max_comments comments, the
\* first max_comments of the whole pre-order flattening, and the flattening
\* collects no comment once max_comments of them are collected.
C21_StopsAtCap ==
    cpc = "reddit_done" =>
        /\ Len(flat) <= max_comments
        /\ \A i \in 1..Len(flat) : flat[i] = collected[i]
        /\ Len(flat) = Len(collected) \/ Len(flat) = max_comments
        /\ Len(collected) <= max_comments

\* The part of C21 that the code keeps: the result is the first max_comments
\* comments of the pre-order flattening of the whole tree.
C21_CapIsPrefix ==
    cpc = "reddit_done" =>
        /\ Len(flat) <= max_comments
        /\ Len(flat) <= Len(collected)
        /\ \A i \in 1..Len(flat) : flat[i] = collected[i]
        /\ Len(flat) = Len(collected) \/ Len(flat) = max_comments
        /\ { collected[i].author : i \in 1..Len(collected) } = CommentPaths(thread)
        /\ \A i, j \in 1..Len(collected) :
               i < j => PreOrderBefore(collected[i].author, collected[j].author)

\* A reply below the twentieth comment is collected and then cut off.
C21_Witness ==
    /\ cpc = "reddit_done"
    /\ Len(flat) = max_comments
    /\ Len(collected) = max_comments + 1
    /\ collected[max_comments + 1].depth = 1

\* display_report returned after it called _generate_insights.
ReportDone == op = "report" /\ pc = "idle" /\ Len(report_leads) > 0 /\ output_path

\* A text without the backslashes that precede a "|".
RECURSIVE Unescaped(_)
Unescaped(text) ==
    IF Len(text) = 0 THEN <<>>
    ELSE IF Len(text) > 1 /\ text[1] = "\\" /\ text[2] = "|"
         THEN <<"|">> \o Unescaped(SubSeq(text, 3, Len(text)))
         ELSE <<Head(text)>> \o Unescaped(Tail(text))

\* C22: _generate_insights returns a string and raises nothing; when
\* _call_llm gave it nothing (pool exhausted, call failed) the string is
\* empty, and display_report then still writes the report with one
\* scoreboard row per lead, in order, and without the briefing section.
C22_InsightsBestEffort ==
    ReportDone =>
        /\ status = "returned"
        /\ err = ""
        /\ ~text_out.none
        /\ raw.none => text_out.text = <<>>
        /\ report_md.exists
        /\ report_md.count = Len(report_leads)
        /\ Len(report_md.rows) = Len(report_leads)
        /\ \A i \in 1..Len(report_leads) :
               /\ report_md.rows[i].score = report_leads[i].score
               /\ Unescaped(report_md.rows[i].title) = report_leads[i].title
               /\ report_md.rows[i].url = report_leads[i].url
               /\ report_md.rows[i].analysis = report_leads[i].analysis
               /\ report_md.rows[i].comment_count = report_leads[i].comment_count
        /\ report_md.briefing = text_out.text

\* The pool runs out inside _generate_insights and the report of two leads
\* is written without a briefing.
C22_Witness ==
    /\ ReportDone
    /\ raw.none
    /\ calls > 0
    /\ agents[cur].model = NoModel
    /\ Len(report_md.rows) = 2
    /\ report_md.briefing = <<>>

\* No folder of scouts_dir other than the output folder holds a report.
NoReportAnywhere ==
    \A e \in scouts_dir :
        (e.is_dir /\ e.name # "campaign_manager") =>
            \A f \in e.files : f.kind # "report.md"

\* CampaignManagerAgent.run has returned (the write did not raise).
RunReturned == op = "playbook" /\ mpc \in {"next", "done"} /\ stages = <<"returned">>

\* C23: with no report in any platform folder, run issues no LLM request,
\* writes no file and returns None; and when run returns, the campaign file
\* is written if and only if _call_llm returned a non-empty text, which is
\* then the content of the file.
C23_CampaignFileIffPlaybook ==
    /\ (op = "playbook" /\ NoReportAnywhere) =>
           /\ reports = <<>>
           /\ pc = "idle"
           /\ calls = 0
           /\ text_out.none
           /\ campaign_file = <<>>
    /\ campaign_file # <<>> =>
           /\ ~raw.none
           /\ campaign_file = raw.text
    /\ RunReturned =>
           (campaign_file # <<>> <=> (~raw.none /\ Len(raw.text) > 0))

\* A run over a SCOUTS_DIR whose only report lies in the output folder,
\* with a usable key: it ends without a request and without a file.
C23_Witness ==
    /\ RunReturned
    /\ mpc = "done"
    /\ NoReportAnywhere
    /\ OutputDir \in scouts_dir
    /\ agents[cur].model # NoModel
    /\ campaign_file = <<>>

\* The platform folders of scouts_dir, and the reports in a folder.
PlatformDirs == { e \in scouts_dir : e.is_dir /\ e.name # "campaign_manager" }
ReportsIn(e) == { f \in e.files : f.kind = "report.md" }

\* C24: _collect_reports takes nothing from the output folder or from a
\* plain file, and from each platform folder that holds a report exactly
\* one: a report of the requested date when the folder has one, else the
\* greatest-named report of the folder.
C24_CollectReports ==
    op = "playbook" =>
        /\ \A i \in 1..Len(reports) :
               /\ reports[i].path[1] # "campaign_manager"
               /\ \E e \in PlatformDirs :
                      /\ e.name = reports[i].path[1]
                      /\ reports[i].path[2] \in ReportsIn(e)
                      /\ reports[i].content = reports[i].path[2]
               /\ \A j \in 1..Len(reports) :
                      reports[i].path[1] = reports[j].path[1] => i = j
        /\ \A e \in PlatformDirs :
               LET chosen == { i \in 1..Len(reports) : reports[i].path[1] = e.name }
                   today == { f \in ReportsIn(e) : f.date = today_str }
               IN  /\ ReportsIn(e) = {} <=> chosen = {}
                   /\ \A i \in chosen :
                          LET f == reports[i].path[2] IN
                          /\ today # {} => f.date = today_str
                          /\ today = {} =>
                                 \A g \in ReportsIn(e) : g = f \/ FileBefore(g, f)

\* The Hacker News folder holds the report of the day and a later one, the
\* output folder is there, and the report of the day is the one taken.
C24_Witness ==
    /\ op = "playbook"
    /\ OutputDir \in scouts_dir
    /\ \E e \in scouts_dir :
           /\ e.name = "hackernews_posts"
           /\ e.files = {File(today_str, "HN", "report.md"),
                         File(today_str + 1, "HN", "report.md")}
    /\ Len(reports) = 2
    /\ reports[1].content = File(today_str, "HN", "report.md")

\* C25 as claimed: display_report issues no request to the LLM service and
\* leaves the key cursor of its reviewer where it was.
C25_PureRendering ==
    /\ [](op = "report" => (pc = "idle" /\ calls = 0))
    /\ [][(op' = "report") =>
              agents'[cur'].current_key_index = agents[cur'].current_key_index]_vars

\* The positions of the listing requests in the trace.
GetPositions == { i \in 1..Len(trace) : trace[i].ev = "get" }

\* C26 as claimed: in RedditScout.scan a listing request is issued only after
\* the one before it was answered, and between the listing requests of two
\* consecutive channels the scan sleeps REQUEST_DELAY, however the earlier
\* channel ended.
C26_DelayBetweenChannels ==
    scout = "reddit" =>
        \A i, j \in GetPositions :
            i < j =>
                /\ \E k \in (i + 1)..(j - 1) :
                       trace[k].ev = "resp" /\ trace[k].ch = trace[i].ch
                /\ trace[j].ch = trace[i].ch + 1 =>
                       \E k \in (i + 1)..(j - 1) :
                           trace[k] = Sleep(trace[i].ch, REQUEST_DELAY)

\* The part of C26 that the code keeps: requests are issued one at a time,
\* and a channel that ended with a 200 and no exception is followed by the
\* delay.
C26_DelayAfterSuccess ==
    scout = "reddit" =>
        /\ \A i, j \in GetPositions :
               i < j => \E k \in (i + 1)..(j - 1) :
                            trace[k].ev = "resp" /\ trace[k].ch = trace[i].ch
        /\ \A c \in 1..(Len(subreddits) - 1) :
               LET resps == EventsOf("resp", c) IN
               (ChannelOver(c) /\ resps[Len(resps)].v = 200
                /\ EventsOf("except", c) = <<>>) =>
                   \E j \in GetPositions :
                       /\ trace[j].ch = c + 1
                       /\ trace[j - 1] = Sleep(c, REQUEST_DELAY)

\* The hit of the model with an objectID, and whether the scan holds a lead
\* of channel c for it.
HitOf(id) == CHOOSE h \in HNHits : h.objectID = id
IsLead(c, id) ==
    \E i \in 1..Len(scan_leads) :
        /\ scan_leads[i].keyword_found = keywords[c]
        /\ scan_leads[i].url[2] = id

\* C27 as claimed: in HackerNewsScout.scan a hit of a search response
\* becomes a lead exactly when its creation time is not older than
\* now - hours_back, and the item request is issued for the hits that
\* become leads and for no other.
C27_LeadIffInWindow ==
    scout = "hn" =>
        \A c \in 1..Len(keywords) :
            ChannelOver(c) =>
                \A k \in 1..Len(trace) :
                    (trace[k].ev = "hit" /\ trace[k].ch = c) =>
                        LET id == trace[k].v IN
                        /\ IsLead(c, id) <=> HitOf(id).age <= hours_back
                        /\ IsLead(c, id) <=>
                               \E m \in 1..Len(trace) : trace[m] = ItemGet(c, id)

\* The part of C27 that the code keeps: the item request is issued for the
\* hits that become leads and for no other, and no hit older than the
\* window becomes a lead.
C27_FetchIffLead ==
    scout = "hn" =>
        \A c \in 1..Len(keywords) :
            ChannelOver(c) =>
                \A k \in 1..Len(trace) :
                    (trace[k].ev = "hit" /\ trace[k].ch = c) =>
                        LET id == trace[k].v IN
                        /\ IsLead(c, id) => HitOf(id).age < hours_back
                        /\ IsLead(c, id) <=>
                               \E m \in 1..Len(trace) : trace[m] = ItemGet(c, id)

\* _call_llm was entered by the method that ran last.
Called == entry >= 0

\* C28 as stated: every invocation of _call_llm terminates, it issues at
\* most (pool size - cursor at entry) requests, and the attempt bound of
\* 2 x pool size is never the loop condition that fails.
C28_Original ==
    /\ [](Called => (calls <= PoolSize(cur) - entry
                     /\ attempt < max_retries(agents[cur])))
    /\ (pc = "llm" ~> pc = "idle")

\* C28 amended: every invocation of _call_llm terminates and issues at most
\* (pool size - cursor at entry) requests; with a non-empty pool the attempt
\* bound of 2 x pool size is never the loop condition that fails.
C28_CallTerminates ==
    /\ [](Called => (calls <= PoolSize(cur) - entry
                     /\ (PoolSize(cur) > 0 => attempt < max_retries(agents[cur]))))
    /\ (pc = "llm" ~> pc = "idle")

\* An invocation entered with the cursor on the second key has issued its
\* one request, failed on quota and returned with the pool exhausted.
C28_Witness ==
    /\ pc = "idle"
    /\ entry = 1
    /\ calls = 1
    /\ PoolSize(cur) = 2
    /\ agents[cur].model = NoModel

\* The comments phase 2 fetched for the leads of a title.
FetchedFor(title) ==
    { i \in 1..Len(leads) : leads[i].title = title /\ Len(leads[i].comments) > 0 }

\* C29: in the Reddit pipeline, a high-signal lead whose fetched comment
\* list is not empty is never presented to _generate_insights with an empty
\* comment list.
C29_InsightsReadFetchedComments ==
    (op = "report" /\ Called) =>
        \A j \in 1..Len(report_leads) :
            FetchedFor(report_leads[j].title) # {}
                => Len(TopComments(cands[cur], report_leads[j].title)) > 0

\* No title is carried by two entries of a list.
NoTitleTwice(entries) ==
    \A i, j \in 1..Len(entries) : entries[i].title = entries[j].title => i = j

\* C30: for every response array, one that repeats an index included, no
\* candidate title appears twice in the scored list of _batch_analyze, in
\* the high-signal list of analyze_leads or in the scoreboard of the report.
C30_OneEntryPerCandidate ==
    (AnalyzeEnded /\ status = "returned") =>
        /\ NoTitleTwice(all_scored)
        /\ NoTitleTwice(high_signal)
        /\ NoTitleTwice(Scoreboard(high_signal))

\* The leads of the scan that carry a title.
Carrying(title) == { i \in 1..Len(leads) : leads[i].title = title }

\* C31: for every title of the scan, shared by two leads or not, the
\* artifact holds exactly one record, built from the last lead of that title
\* in scan order, in phase 1 and after phase 2 (then with the comments of
\* that lead); and when phase 2 is over a high-signal title has had one
\* comment request for each lead that carries it (fetch_comments is called
\* for each of them, and sends its request when the lead has a reddit_id).
C31_LastLeadWinsFetchPerLead ==
    LET d == json_file.data IN
    /\ Len(d) = Cardinality({ leads[i].title : i \in 1..Len(leads) })
    /\ \A i \in 1..Len(leads) :
           LET title == leads[i].title
               records == { k \in 1..Len(d) : d[k].title = title }
               l == LastLead(title)
           IN  /\ Cardinality(records) = 1
               /\ \A k \in records :
                      /\ Blank(d[k]) = Phase1Record(l)
                      /\ d[k].comments = IF rpc = "report" THEN l.comments ELSE <<>>
               /\ (rpc = "report" /\ title \in TitlesOf(high_signal)) =>
                      { j \in fetched : leads[j].title = title }
                          = { j \in Carrying(title) : leads[j].reddit_id # "" }

\* C31 witness: two leads share a high-signal title, phase 2 has fetched
\* for both with different results, and the one record of the title holds
\* the comments of the later lead.
C31_Witness ==
    /\ rpc = "report"
    /\ \E i, j \in fetched :
           /\ i < j
           /\ leads[i].title = leads[j].title
           /\ leads[i].comments # leads[j].comments
           /\ leads[i].comments # <<>>
           /\ \E k \in 1..Len(json_file.data) :
                  /\ json_file.data[k].title = leads[j].title
                  /\ json_file.data[k].comments = leads[j].comments
                  /\ json_file.data[k].subreddit = leads[j].subreddit

\* A step that enters display_report.
EntersReport == pc = "idle" /\ op' = "report" /\ agents' = agents

\* display_report was given leads and an output path.
HasWork == Len(report_leads') > 0 /\ output_path'

\* The steps of display_report after its entry: while the request of
\* _generate_insights is retried nothing is written, and when it ends the
\* report of the leads is written.
ReportAfterCall ==
    (op = "report" /\ pc = "llm") =>
        IF pc' = "llm" THEN report_md' = report_md
        ELSE /\ report_md'.exists
             /\ report_md'.rows = Scoreboard(report_leads)

\* Without leads or without a path display_report returns at once: no
\* request, and the report file is as it was.
ReportLeftAlone ==
    (EntersReport /\ ~HasWork) =>
        /\ pc' = "idle"
        /\ calls' = 0
        /\ report_md' = report_md

\* C32 as stated: display_report writes the report and issues the insight
\* request if and only if the list of leads is not empty and an output path
\* is given; otherwise it returns with no request and the report file
\* untouched.
C32_Original ==
    [][/\ (EntersReport /\ HasWork) => pc' = "llm"
       /\ ReportLeftAlone
       /\ ReportAfterCall]_vars

\* C32 amended: display_report writes the report if and only if the list of
\* leads is not empty and an output path is given, and issues the insight
\* request if and only if, besides, the agent has a model; otherwise it
\* returns with no request and the report file untouched.
C32_ReportIffLeadsAndPath ==
    [][/\ (EntersReport /\ HasWork) =>
              IF agents[cur'].model # NoModel THEN pc' = "llm"
              ELSE /\ pc' = "idle"
                   /\ calls' = 0
                   /\ report_md' = Render(report_leads', <<>>)
       /\ ReportLeftAlone
       /\ ReportAfterCall]_vars

\* C32 witness: a report written by an earlier call is in place after a call
\* with an empty list.
C32_Witness ==
    /\ pc = "idle"
    /\ op = "report"
    /\ Len(report_leads) = 0
    /\ output_path
    /\ report_md.exists
    /\ Len(report_md.rows) > 0

\* C33 as stated: a scout pipeline whose scan returned leads writes its
\* artifact of phase 1 and then goes through analyze_leads to the report
\* stage; the call of analyze_leads never fails, so no scout stage is left
\* by an exception once its artifact is written.
C33_HandOffCompletes ==
    \A k \in 1..Len(stages) :
        (/\ platforms[k] \in {"hackernews", "reddit"}
         /\ IF platforms[k] = "hackernews" THEN hn_file.exists ELSE json_file.exists)
            => stages[k] = "returned"

====
